---------------------------- MODULE Spec2Model ----------------------------
(***************************************************************************)
(* StreamManager (src/stream_manager.py): the supervisor of the ffmpeg     *)
(* relay processes.  The state is the PID directory, the OS process table, *)
(* the in-memory _process_handles registry and, for every request thread,  *)
(* the position inside the operation it executes.  Every file-system call  *)
(* and every system call of an operation is one step, so that processes    *)
(* may exit, pids may be reassigned and other requests may run between     *)
(* two steps of an operation.                                              *)
(*                                                                         *)
(* A terminated process is taken to have left the process table (it has    *)
(* been reaped); every process of the table answers the zero-signal probe. *)
(***************************************************************************)
EXTENDS Integers, FiniteSets, Sequences, TLC

\* ------------------------------------------------------------- bounds
\* pids the OS hands out: 1..MaxPid
MaxPid == 2

\* the command line: the most extra arguments of a request
MaxArgs == 2

\* the log of a stream: the most bytes the children write
MaxLog == 3

\* get_logs: the longest tail asked for, the most lines of a log file, and
\* the lengths of its long lines, on either side of the first chunk of 1024
MaxTail == 3
MaxFileLines == 3
MidLine == 600
LongLine == 1100

Pids == 1..MaxPid
\* stream identifiers used by the requests
Ids == {"s1", "s2"}
\* request threads (the sequential specification uses the first only)
Threads == {1, 2}

\* ------------------------------------------------------------- values
\* content of <id>.pid : a pid, text that int() rejects, or no file
NoFile == -1
Unparsable == 0
Contents == Pids \cup {NoFile, Unparsable}

\* content of <id>.log : a sequence of bytes, or no file
NoLog == <<-1>>

\* process table entries: a child spawned by start_stream for an id is
\* entered under that id; every other process is foreign to the supervisor.
\* The command line of a foreign process is its own business (it may exec):
\* each read of /proc/<pid>/cmdline may or may not find "ffmpeg" in it
Free == "free"
Foreign == "foreign"
ProcKinds == Ids \cup {Free, Foreign}

\* exceptions, by their Python class
RuntimeError == "RuntimeError"
FileNotFoundError == "FileNotFoundError"
ValueError == "ValueError"
ProcessLookupError == "ProcessLookupError"
OSError == "OSError"
\* the failures of the interface, as the routes map them
AlreadyRunning == RuntimeError
NotRunning == FileNotFoundError
BinaryNotFound == FileNotFoundError

VARIABLES
    pid_file,          \* PIDS_DIR: id -> content of <id>.pid
    proc,              \* OS process table: pid -> kind of process
    process_handles,   \* _process_handles: id -> pid of the entry, 0 if none
    handle_args,       \* _process_handles: id -> "args" of the entry, <<>> if none
    open_logs,         \* id -> number of open handles on <id>.log held by the supervisor
    th,                \* thread -> frame of the operation it executes
    quiet,             \* history: no process-table event since the operation began
    log_file           \* LOGS_DIR: id -> bytes of <id>.log as get_logs reads them

vars == <<pid_file, proc, process_handles, handle_args, open_logs, th, quiet, log_file>>

\* ------------------------------------------------------------- frames
NoPre == [rec |-> NoFile, live |-> FALSE, reg |-> 0]

Idle ==
    [pc |-> "idle", op |-> "", id |-> "", cur |-> "", pid |-> 0, pg |-> 0, newpid |-> 0,
     logf |-> FALSE, exc |-> "", todo |-> {}, items |-> {}, rpid |-> 0,
     running |-> FALSE, err |-> "", pre |-> NoPre, sent |-> {},
     lines |-> 0, chunk_size |-> 0, position |-> 0, data |-> <<>>, out |-> <<>>,
     image |-> <<>>, mode |-> <<>>, absent |-> FALSE, args |-> <<>>, once |-> <<>>,
     applied |-> 0, hls |-> <<>>, rtmp |-> <<>>, cmd |-> <<>>, cmdline |-> ""]

IsIdle(t) == th[t].pc = "idle"
AllIdle == \A t \in Threads : IsIdle(t)

\* (mutant) a probe that reports every pid alive
is_running_always(p) == TRUE

\* StreamManager.is_running: os.kill(pid, 0) succeeds for every process of the table
is_running(p) == proc[p] # Free

\* Path.exists() of the pid file
exists(i) == pid_file[i] # NoFile

\* int(read_text().strip()) succeeds
parsable(c) == c \in Pids

\* (mutant) the child was not made a group leader: the group is another one
getpgid_not_leader(p) == IF p = 1 THEN MaxPid ELSE 1

\* os.getpgid(pid): every process here leads its own group (the children by
\* preexec_fn=os.setsid), so the group id of a process is its pid
getpgid(p) == p

\* whom a signal to process group g reaches, relative to the record of id i
Victim(g, i) ==
    IF proc[g] = Free THEN "none"
    ELSE IF proc[g] = i THEN "own"
    ELSE IF proc[g] \in Ids THEN "other"
    ELSE "foreign"

Signal(sig, g, i) == [sig |-> sig, pg |-> g, victim |-> Victim(g, i)]

\* the frame at the start of an operation on id i
Enter(o, i, first) ==
    [Idle EXCEPT !.pc = first, !.op = o, !.id = i,
                 !.pre = IF i \in Ids
                         THEN [rec |-> pid_file[i],
                               live |-> pid_file[i] \in Pids /\ proc[pid_file[i]] # Free,
                               reg |-> process_handles[i]]
                         ELSE NoPre]

\* the operation returns (err = "") or raises err
Done(r, e, p) ==
    [Idle EXCEPT !.pc = "done", !.op = r.op, !.id = r.id, !.err = e, !.rpid = p,
                 !.newpid = r.newpid, !.items = r.items, !.pre = r.pre, !.sent = r.sent,
                 !.lines = r.lines, !.out = r.out]

Set(t, r) == th' = [th EXCEPT ![t] = r]

\* ------------------------------------------------------------- Init
\* StreamManager.__init__: an empty registry; the PID directory may hold
\* unparsable records left behind by a former supervisor
Init ==
    /\ pid_file \in [Ids -> {NoFile, Unparsable}]
    /\ proc = [p \in Pids |-> Free]
    /\ process_handles = [i \in Ids |-> 0]
    /\ handle_args = [i \in Ids |-> <<>>]
    /\ open_logs = [i \in Ids |-> 0]
    /\ th = [t \in Threads |-> Idle]
    /\ quiet = TRUE
    /\ log_file = [i \in Ids |-> NoLog]

\* ------------------------------------------------------------- requests
BeginStartOn(t, i) ==
    /\ IsIdle(t)
    /\ Set(t, Enter("start", i, "s_exists"))
    /\ quiet' = TRUE
    /\ UNCHANGED <<pid_file, proc, process_handles, handle_args, open_logs, log_file>>

BeginStart(t) == \E i \in Ids : BeginStartOn(t, i)

BeginStopOn(t, i) ==
    /\ IsIdle(t)
    /\ Set(t, Enter("stop", i, "t_exists"))
    /\ quiet' = TRUE
    /\ UNCHANGED <<pid_file, proc, process_handles, handle_args, open_logs, log_file>>

BeginStop(t) == \E i \in Ids : BeginStopOn(t, i)

\* the response has been sent: the frame is dropped
Return(t) ==
    /\ th[t].pc = "done"
    /\ Set(t, Idle)
    /\ quiet' = TRUE
    /\ UNCHANGED <<pid_file, proc, process_handles, handle_args, open_logs, log_file>>

\* ------------------------------------------------------------- command line
\* An argument is a string, a sequence of characters; an argument vector is
\* a sequence of arguments
Upper == <<"A", "B", "C", "D", "E", "F", "G", "H", "I", "J", "K", "L", "M",
           "N", "O", "P", "Q", "R", "S", "T", "U", "V", "W", "X", "Y", "Z">>
Lower == <<"a", "b", "c", "d", "e", "f", "g", "h", "i", "j", "k", "l", "m",
           "n", "o", "p", "q", "r", "s", "t", "u", "v", "w", "x", "y", "z">>

\* str.lower()
lower(s) ==
    [k \in 1..Len(s) |->
        IF \E j \in 1..26 : Upper[j] = s[k]
        THEN Lower[CHOOSE j \in 1..26 : Upper[j] = s[k]]
        ELSE s[k]]

\* " ".join(args)
RECURSIVE join_args(_)
join_args(a) ==
    IF Len(a) = 0 THEN <<>>
    ELSE IF Len(a) = 1 THEN a[1]
    ELSE a[1] \o <<" ">> \o join_args(Tail(a))

\* keyword in args_str : the substring test of str
contains(s, w) == \E k \in 0..(Len(s) - Len(w)) : SubSeq(s, k + 1, k + Len(w)) = w

\* x in args : the membership test of list
member(x, a) == \E k \in 1..Len(a) : a[k] = x

\* list.insert(index, x); an index beyond the end appends
insert(a, index, x) ==
    LET i == IF index > Len(a) THEN Len(a) ELSE index IN
      SubSeq(a, 1, i) \o <<x>> \o SubSeq(a, i + 1, Len(a))

\* the string literals of the source
Literal ==
    [
      \* "-i" (utils.py lines 36, 40, 44)
      DashI |-> <<"-", "i">>,
      \* "-filter_complex" (utils.py lines 49, 56 and stream_manager.py line 46)
      FilterComplex |-> <<"-", "f", "i", "l", "t", "e", "r", "_", "c", "o", "m", "p", "l", "e",
          "x">>,
      \* "overlay" (utils.py line 49 and stream_manager.py line 47)
      OverlayWord |-> <<"o", "v", "e", "r", "l", "a", "y">>,
      \* "[0:v][1:v]overlay=(W-w)/2:(H-h)/2:format=auto" (utils.py line 54)
      OverlayExpr |-> <<"[", "0", ":", "v", "]", "[", "1", ":", "v", "]", "o", "v", "e", "r",
          "l", "a", "y", "=", "(", "W", "-", "w", ")", "/", "2", ":", "(", "H", "-", "h", ")", "/",
          "2", ":", "f", "o", "r", "m", "a", "t", "=", "a", "u", "t", "o">>,
      \* "full" (utils.py line 47)
      Full |-> <<"f", "u", "l", "l">>,
      \* "-vf" (stream_manager.py line 46)
      DashVf |-> <<"-", "v", "f">>,
      \* "drawtext" (stream_manager.py line 46)
      Drawtext |-> <<"d", "r", "a", "w", "t", "e", "x", "t">>,
      \* "format=" (stream_manager.py line 47)
      FormatEq |-> <<"f", "o", "r", "m", "a", "t", "=">>,
      \* "scale" (stream_manager.py line 47)
      Scale |-> <<"s", "c", "a", "l", "e">>,
      \* "crop" (stream_manager.py line 47)
      Crop |-> <<"c", "r", "o", "p">>,
      \* "-re" (stream_manager.py line 65)
      DashRe |-> <<"-", "r", "e">>,
      \* "-c:v" (stream_manager.py lines 74, 80)
      DashCv |-> <<"-", "c", ":", "v">>,
      \* "copy" (stream_manager.py line 80)
      Copy |-> <<"c", "o", "p", "y">>,
      \* "-preset" (stream_manager.py line 75)
      DashPreset |-> <<"-", "p", "r", "e", "s", "e", "t">>,
      \* "-tune" (stream_manager.py line 76)
      DashTune |-> <<"-", "t", "u", "n", "e">>,
      \* "-b:v" (stream_manager.py line 77)
      DashBv |-> <<"-", "b", ":", "v">>,
      \* "-c:a" (stream_manager.py line 84)
      DashCa |-> <<"-", "c", ":", "a">>,
      \* "-ar" (stream_manager.py line 85)
      DashAr |-> <<"-", "a", "r">>,
      \* "-b:a" (stream_manager.py line 86)
      DashBa |-> <<"-", "b", ":", "a">>,
      \* "-f" (stream_manager.py line 87)
      DashF |-> <<"-", "f">>,
      \* "flv" (stream_manager.py line 87)
      Flv |-> <<"f", "l", "v">> ]

\* the settings of config.py, at their defaults
\* "/usr/bin/ffmpeg" (config.py line 21)
FFMPEG_BIN == <<"/", "u", "s", "r", "/", "b", "i", "n", "/", "f", "f", "m", "p", "e", "g">>
\* "libx264" (config.py line 24)
VIDEO_CODEC == <<"l", "i", "b", "x", "2", "6", "4">>
\* "veryfast" (config.py line 25)
VIDEO_PRESET == <<"v", "e", "r", "y", "f", "a", "s", "t">>
\* "zerolatency" (config.py line 26)
VIDEO_TUNE == <<"z", "e", "r", "o", "l", "a", "t", "e", "n", "c", "y">>
\* "2000k" (config.py line 27)
VIDEO_BITRATE == <<"2", "0", "0", "0", "k">>
\* "aac" (config.py line 30)
AUDIO_CODEC == <<"a", "a", "c">>
\* "44100" (config.py line 31)
AUDIO_SAMPLE_RATE == <<"4", "4", "1", "0", "0">>
\* "128k" (config.py line 32)
AUDIO_BITRATE == <<"1", "2", "8", "k">>

\* utils.build_overlay_args (utils.py lines 33-58)
overlay_insert_index(args) ==
    IF member(Literal.DashI, args)
    THEN (CHOOSE i \in 1..Len(args) :
              args[i] = Literal.DashI /\ \A j \in 1..(i - 1) : args[j] # Literal.DashI) + 1
    ELSE 0

\* lines 36-44: the image input goes after the first "-i" and its value
overlay_with_input(image_path, args) ==
    IF ~member(Literal.DashI, args) \/ ~member(image_path, args)
    THEN insert(insert(args, overlay_insert_index(args), image_path),
                overlay_insert_index(args), Literal.DashI)
    ELSE args

\* line 49: no "-filter_complex" and no "overlay" in the joined, lower-cased args
overlay_filter_wanted(args) ==
    LET args_str == lower(join_args(args)) IN
      ~contains(args_str, Literal.FilterComplex) /\ ~contains(args_str, Literal.OverlayWord)

\* lines 47-56
overlay_with_filter(overlay_mode, args) ==
    IF overlay_mode = Literal.Full /\ overlay_filter_wanted(args)
    THEN args \o <<Literal.FilterComplex, Literal.OverlayExpr>>
    ELSE args

build_overlay_args(image_path, overlay_mode, existing_args) ==
    overlay_with_filter(overlay_mode, overlay_with_input(image_path, existing_args))

\* StreamManager._should_reencode (stream_manager.py lines 39-49)
reencode_keywords == <<Literal.FilterComplex, Literal.DashVf, Literal.Drawtext, Literal.OverlayWord, Literal.FormatEq, Literal.Scale, Literal.Crop>>

\* (mutant) the keywords are looked for without lower-casing the arguments
_should_reencode_cased(extra_args) ==
    IF Len(extra_args) = 0 THEN FALSE
    ELSE LET args_str == join_args(extra_args) IN
           \E k \in 1..Len(reencode_keywords) : contains(args_str, reencode_keywords[k])

_should_reencode(extra_args) ==
    IF Len(extra_args) = 0 THEN FALSE
    ELSE LET args_str == lower(join_args(extra_args)) IN
           \E k \in 1..Len(reencode_keywords) : contains(args_str, reencode_keywords[k])

\* lines 73-80
video_args(extra_args) ==
    IF _should_reencode(extra_args)
    THEN <<Literal.DashCv, VIDEO_CODEC, Literal.DashPreset, VIDEO_PRESET, Literal.DashTune, VIDEO_TUNE,
           Literal.DashBv, VIDEO_BITRATE>>
    ELSE <<Literal.DashCv, Literal.Copy>>

\* lines 83-89
audio_args(rtmp) ==
    <<Literal.DashCa, AUDIO_CODEC, Literal.DashAr, AUDIO_SAMPLE_RATE, Literal.DashBa, AUDIO_BITRATE, Literal.DashF, Literal.Flv, rtmp>>

\* (mutant) the extra arguments are appended after the video flags
_build_ffmpeg_args_extra_late(hls, rtmp, extra_args) ==
    <<FFMPEG_BIN, Literal.DashRe, Literal.DashI, hls>> \o video_args(extra_args) \o extra_args
        \o audio_args(rtmp)

\* StreamManager._build_ffmpeg_args (lines 65-91), the binary being on disk
_build_ffmpeg_args(hls, rtmp, extra_args) ==
    <<FFMPEG_BIN, Literal.DashRe, Literal.DashI, hls>> \o extra_args \o video_args(extra_args)
        \o audio_args(rtmp)

\* None of Python, for an overlay mode that was not given
\* ------------------------------------------------------------- start_stream
\* line 119: if pid_file_path.exists()
start_exists(t) ==
    /\ th[t].pc = "s_exists"
    /\ Set(t, [th[t] EXCEPT !.pc = IF exists(th[t].id) THEN "s_read" ELSE "s_build"])
    /\ UNCHANGED <<pid_file, proc, process_handles, handle_args, open_logs, quiet, log_file>>

\* line 121: pid = int(pid_file_path.read_text().strip()); a vanished file
\* (OSError) or unparsable text (ValueError) goes to the handler of line 129
start_read(t) ==
    /\ th[t].pc = "s_read"
    /\ LET c == pid_file[th[t].id] IN
         Set(t, IF parsable(c)
                THEN [th[t] EXCEPT !.pc = "s_probe", !.pid = c]
                ELSE [th[t] EXCEPT !.pc = "s_unlink_ok"])
    /\ UNCHANGED <<pid_file, proc, process_handles, handle_args, open_logs, quiet, log_file>>

\* (mutant) any existing record is taken for a running stream
start_probe_no_liveness(t) ==
    /\ th[t].pc = "s_probe"
    /\ Set(t, Done(th[t], AlreadyRunning, 0))
    /\ UNCHANGED <<pid_file, proc, process_handles, handle_args, open_logs, quiet, log_file>>

\* (mutant) the record of a running stream is removed before the refusal
start_probe_unlinking(t) ==
    /\ th[t].pc = "s_probe"
    /\ IF is_running(th[t].pid)
       THEN /\ Set(t, Done(th[t], AlreadyRunning, 0))
            /\ pid_file' = [pid_file EXCEPT ![th[t].id] = NoFile]
       ELSE /\ Set(t, [th[t] EXCEPT !.pc = "s_unlink"])
            /\ UNCHANGED pid_file
    /\ UNCHANGED <<proc, process_handles, handle_args, open_logs, quiet, log_file>>

\* lines 122-125: a live recorded pid raises RuntimeError, which the handler
\* of line 129 does not catch
start_probe(t) ==
    /\ th[t].pc = "s_probe"
    /\ Set(t, IF is_running(th[t].pid)
              THEN Done(th[t], AlreadyRunning, 0)
              ELSE [th[t] EXCEPT !.pc = "s_unlink"])
    /\ UNCHANGED <<pid_file, proc, process_handles, handle_args, open_logs, quiet, log_file>>

\* line 128: pid_file_path.unlink(); FileNotFoundError, an OSError, goes to line 129
start_unlink(t) ==
    /\ th[t].pc = "s_unlink"
    /\ IF exists(th[t].id)
       THEN /\ pid_file' = [pid_file EXCEPT ![th[t].id] = NoFile]
            /\ Set(t, [th[t] EXCEPT !.pc = "s_build"])
       ELSE /\ Set(t, [th[t] EXCEPT !.pc = "s_unlink_ok"])
            /\ UNCHANGED pid_file
    /\ UNCHANGED <<proc, process_handles, handle_args, open_logs, quiet, log_file>>

\* line 130: pid_file_path.unlink(missing_ok=True)
start_unlink_ok(t) ==
    /\ th[t].pc = "s_unlink_ok"
    /\ pid_file' = [pid_file EXCEPT ![th[t].id] = NoFile]
    /\ Set(t, [th[t] EXCEPT !.pc = "s_build"])
    /\ UNCHANGED <<proc, process_handles, handle_args, open_logs, quiet, log_file>>

\* (mutant) the binary is looked for after the log was opened
start_build_after_open(t) ==
    /\ th[t].pc = "s_build"
    /\ \E binary \in BOOLEAN :
         IF binary
         THEN /\ Set(t, [th[t] EXCEPT !.pc = "s_open",
                            !.cmd = _build_ffmpeg_args(th[t].hls, th[t].rtmp, th[t].args)])
              /\ UNCHANGED open_logs
         ELSE /\ Set(t, Done(th[t], BinaryNotFound, 0))
              /\ open_logs' = [open_logs EXCEPT ![th[t].id] = @ + 1]
    /\ UNCHANGED <<pid_file, proc, process_handles, handle_args, quiet, log_file>>

\* line 133 with lines 59-62: _build_ffmpeg_args raises FileNotFoundError
\* when config.FFMPEG_BIN is not on disk
start_build(t) ==
    /\ th[t].pc = "s_build"
    /\ \E binary \in BOOLEAN :
         Set(t, IF binary
                THEN [th[t] EXCEPT !.pc = "s_open",
                         !.cmd = _build_ffmpeg_args(th[t].hls, th[t].rtmp, th[t].args)]
                ELSE Done(th[t], BinaryNotFound, 0))
    /\ UNCHANGED <<pid_file, proc, process_handles, handle_args, open_logs, quiet, log_file>>

\* (mutant) the log is opened for writing, which empties it
start_open_truncating(t) ==
    /\ th[t].pc = "s_open"
    /\ open_logs' = [open_logs EXCEPT ![th[t].id] = @ + 1]
    /\ log_file' = [log_file EXCEPT ![th[t].id] = <<>>]
    /\ Set(t, [th[t] EXCEPT !.pc = "s_spawn", !.logf = TRUE])
    /\ UNCHANGED <<pid_file, proc, process_handles, handle_args, quiet>>

\* line 137: log_file_handle = open(log_file_path, "ab"): append mode makes
\* the file when there is none and leaves an existing one as it is
start_open(t) ==
    /\ th[t].pc = "s_open"
    /\ open_logs' = [open_logs EXCEPT ![th[t].id] = @ + 1]
    /\ log_file' = [log_file EXCEPT ![th[t].id] = IF @ = NoLog THEN <<>> ELSE @]
    /\ Set(t, [th[t] EXCEPT !.pc = "s_spawn", !.logf = TRUE])
    /\ UNCHANGED <<pid_file, proc, process_handles, handle_args, quiet>>

\* lines 141-146: subprocess.Popen(..., preexec_fn=os.setsid) gives the child
\* a free pid, or raises
start_spawn(t) ==
    /\ th[t].pc = "s_spawn"
    /\ \/ \E p \in Pids :
            /\ proc[p] = Free
            /\ proc' = [proc EXCEPT ![p] = th[t].id]
            /\ Set(t, [th[t] EXCEPT !.pc = "s_write", !.newpid = p])
       \/ /\ Set(t, [th[t] EXCEPT !.pc = "s_except", !.exc = OSError])
          /\ UNCHANGED proc
    /\ UNCHANGED <<pid_file, process_handles, handle_args, open_logs, quiet, log_file>>

\* line 149: pid_file_path.write_text(str(process.pid)), or it raises
start_write(t) ==
    /\ th[t].pc = "s_write"
    /\ \/ /\ pid_file' = [pid_file EXCEPT ![th[t].id] = th[t].newpid]
          /\ Set(t, [th[t] EXCEPT !.pc = "s_register"])
       \/ /\ Set(t, [th[t] EXCEPT !.pc = "s_except", !.exc = OSError])
          /\ UNCHANGED pid_file
    /\ UNCHANGED <<proc, process_handles, handle_args, open_logs, quiet, log_file>>

\* (mutant) the entry is registered without the "args" of line 154
start_register_without_args(t) ==
    /\ th[t].pc = "s_register"
    /\ process_handles' = [process_handles EXCEPT ![th[t].id] = th[t].newpid]
    /\ open_logs' = [open_logs EXCEPT ![th[t].id] =
                        IF process_handles[th[t].id] # 0 THEN @ - 1 ELSE @]
    /\ Set(t, [Done(th[t], "", th[t].newpid) EXCEPT !.logf = FALSE])
    /\ UNCHANGED <<pid_file, proc, handle_args, quiet, log_file>>

\* lines 150-157: the entry replaces any former entry of the id, whose log
\* handle loses its last reference and is closed; return process.pid
start_register(t) ==
    /\ th[t].pc = "s_register"
    /\ process_handles' = [process_handles EXCEPT ![th[t].id] = th[t].newpid]
    /\ handle_args' = [handle_args EXCEPT ![th[t].id] = th[t].cmd]
    /\ open_logs' = [open_logs EXCEPT ![th[t].id] =
                        IF process_handles[th[t].id] # 0 THEN @ - 1 ELSE @]
    /\ Set(t, [Done(th[t], "", th[t].newpid) EXCEPT !.logf = FALSE])
    /\ UNCHANGED <<pid_file, proc, quiet, log_file>>

\* lines 159-163: log_file_handle.close(); pid_file_path.unlink(missing_ok=True); raise
start_except(t) ==
    /\ th[t].pc = "s_except"
    /\ open_logs' = [open_logs EXCEPT ![th[t].id] = @ - 1]
    /\ pid_file' = [pid_file EXCEPT ![th[t].id] = NoFile]
    /\ Set(t, [Done(th[t], th[t].exc, 0) EXCEPT !.logf = FALSE])
    /\ UNCHANGED <<proc, process_handles, handle_args, quiet, log_file>>

start_stream(t) ==
    \/ start_exists(t)
    \/ start_read(t)
    \/ start_probe(t)
    \/ start_unlink(t)
    \/ start_unlink_ok(t)
    \/ start_build(t)
    \/ start_open(t)
    \/ start_spawn(t)
    \/ start_write(t)
    \/ start_register(t)
    \/ start_except(t)


\* ------------------------------------------------------------- stop_stream
\* (mutant) the first Stop that raises ends the sweep of stop_all_streams
stop_return_abort(r, e, p) ==
    IF r.op = "stop_all" /\ e = ""
    THEN [r EXCEPT !.pc = "a_loop", !.pid = 0, !.pg = 0, !.exc = "",
                   !.items = @ \cup {[id |-> r.id, pid |-> p, tag |-> "stopped"]}]
    ELSE IF r.op = "kill_and_cleanup" /\ e \in {"", FileNotFoundError}
    THEN [r EXCEPT !.pc = "c_glob", !.pid = 0, !.pg = 0, !.exc = "", !.rpid = p]
    ELSE Done(r, e, p)

\* stop_stream is also called by stop_all_streams (line 437) and by the
\* kill-and-cleanup route (routes.py line 100): where its return or raise goes
stop_return(r, e, p) ==
    IF r.op = "stop_all"
    THEN [r EXCEPT !.pc = "a_loop", !.pid = 0, !.pg = 0, !.exc = "",
                   !.items = @ \cup {[id |-> r.id, pid |-> p,
                                      tag |-> IF e = "" THEN "stopped" ELSE e]}]
    ELSE IF r.op = "kill_and_cleanup" /\ e \in {"", FileNotFoundError}
    THEN [r EXCEPT !.pc = "c_glob", !.pid = 0, !.pg = 0, !.exc = "", !.rpid = p]
    ELSE Done(r, e, p)

\* (mutant) no check of the record before the try block
stop_exists_unchecked(t) ==
    /\ th[t].pc = "t_exists"
    /\ Set(t, [th[t] EXCEPT !.pc = "t_read"])
    /\ UNCHANGED <<pid_file, proc, process_handles, handle_args, open_logs, quiet, log_file>>

\* lines 180-181: if not pid_file_path.exists(): raise FileNotFoundError
stop_exists(t) ==
    /\ th[t].pc = "t_exists"
    /\ Set(t, IF exists(th[t].id)
              THEN [th[t] EXCEPT !.pc = "t_read"]
              ELSE stop_return(th[t], NotRunning, 0))
    /\ UNCHANGED <<pid_file, proc, process_handles, handle_args, open_logs, quiet, log_file>>

\* line 184: pid = int(pid_file_path.read_text().strip()); no handler but finally
stop_read(t) ==
    /\ th[t].pc = "t_read"
    /\ LET c == pid_file[th[t].id] IN
         Set(t, IF parsable(c)
                THEN [th[t] EXCEPT !.pc = "t_getpgid", !.pid = c]
                ELSE [th[t] EXCEPT !.pc = "t_fin_exists",
                         !.exc = IF c = NoFile THEN FileNotFoundError ELSE ValueError])
    /\ UNCHANGED <<pid_file, proc, process_handles, handle_args, open_logs, quiet, log_file>>

\* line 185: process_group = os.getpgid(pid), outside the try of line 188:
\* ProcessLookupError for a pid that is not in the process table
stop_getpgid(t) ==
    /\ th[t].pc = "t_getpgid"
    /\ Set(t, IF proc[th[t].pid] # Free
              THEN [th[t] EXCEPT !.pc = "t_term", !.pg = getpgid(th[t].pid)]
              ELSE [th[t] EXCEPT !.pc = "t_fin_exists", !.exc = ProcessLookupError])
    /\ UNCHANGED <<pid_file, proc, process_handles, handle_args, open_logs, quiet, log_file>>

\* lines 189-190: os.killpg(process_group, signal.SIGTERM); time.sleep(1.5).
\* The group may end on the signal or ignore it; ProcessLookupError of a
\* vanished group is swallowed at line 196
stop_term(t) ==
    /\ th[t].pc = "t_term"
    /\ LET g == th[t].pg
           r == [th[t] EXCEPT !.sent = @ \cup {Signal("TERM", g, th[t].id)}] IN
         IF proc[g] = Free
         THEN /\ Set(t, [r EXCEPT !.pc = "t_fin_exists"])
              /\ UNCHANGED proc
         ELSE /\ Set(t, [r EXCEPT !.pc = "t_probe"])
              /\ \/ proc' = [proc EXCEPT ![g] = Free]
                 \/ UNCHANGED proc
    /\ UNCHANGED <<pid_file, process_handles, handle_args, open_logs, quiet, log_file>>

\* (mutant) the kill follows the grace wait without a probe
stop_probe_always_kill(t) ==
    /\ th[t].pc = "t_probe"
    /\ Set(t, [th[t] EXCEPT !.pc = "t_kill"])
    /\ UNCHANGED <<pid_file, proc, process_handles, handle_args, open_logs, quiet, log_file>>

\* (mutant) no escalation: the grace wait is followed by the cleanup
stop_probe_never_kill(t) ==
    /\ th[t].pc = "t_probe"
    /\ Set(t, [th[t] EXCEPT !.pc = "t_fin_exists"])
    /\ UNCHANGED <<pid_file, proc, process_handles, handle_args, open_logs, quiet, log_file>>

\* line 193: if self.is_running(pid)
stop_probe(t) ==
    /\ th[t].pc = "t_probe"
    /\ Set(t, [th[t] EXCEPT !.pc = IF is_running(th[t].pid) THEN "t_kill" ELSE "t_fin_exists"])
    /\ UNCHANGED <<pid_file, proc, process_handles, handle_args, open_logs, quiet, log_file>>

\* lines 194-195: os.killpg(process_group, signal.SIGKILL); time.sleep(0.5)
stop_kill(t) ==
    /\ th[t].pc = "t_kill"
    /\ LET g == th[t].pg IN
         /\ Set(t, [th[t] EXCEPT !.pc = "t_fin_exists",
                                 !.sent = @ \cup {Signal("KILL", g, th[t].id)}])
         /\ proc' = [proc EXCEPT ![g] = Free]
    /\ UNCHANGED <<pid_file, process_handles, handle_args, open_logs, quiet, log_file>>

\* line 202 (finally): if pid_file_path.exists()
stop_fin_exists(t) ==
    /\ th[t].pc = "t_fin_exists"
    /\ Set(t, [th[t] EXCEPT !.pc = IF exists(th[t].id) THEN "t_fin_unlink" ELSE "t_fin_pop"])
    /\ UNCHANGED <<pid_file, proc, process_handles, handle_args, open_logs, quiet, log_file>>

\* line 203: pid_file_path.unlink(); a file gone since line 202 raises
\* FileNotFoundError out of the finally block, and lines 206-214 do not run
stop_fin_unlink(t) ==
    /\ th[t].pc = "t_fin_unlink"
    /\ IF exists(th[t].id)
       THEN /\ pid_file' = [pid_file EXCEPT ![th[t].id] = NoFile]
            /\ Set(t, [th[t] EXCEPT !.pc = "t_fin_pop"])
       ELSE /\ Set(t, stop_return(th[t], FileNotFoundError, 0))
            /\ UNCHANGED pid_file
    /\ UNCHANGED <<proc, process_handles, handle_args, open_logs, quiet, log_file>>

\* (mutant) the entry is looked up and left in the registry
pop_handle_kept(h, i) == h

\* line 206: the registry after self._process_handles.pop(stream_id, None)
pop_handle(h, i) == [h EXCEPT ![i] = 0]

\* (mutant) pop(stream_id) without a default raises KeyError for a missing entry
pop_without_default(h, i) == h[i] = 0

\* line 206: pop(stream_id, None) has a default: a missing entry raises nothing
pop_raises(h, i) == FALSE

\* lines 206-216: pop the entry, flush and close its log handle; then the
\* pending exception propagates, or return pid
stop_fin_pop(t) ==
    /\ th[t].pc = "t_fin_pop"
    /\ process_handles' = pop_handle(process_handles, th[t].id)
    /\ handle_args' = [handle_args EXCEPT ![th[t].id] =
                          IF pop_handle(process_handles, th[t].id)[th[t].id] = 0 THEN <<>> ELSE @]
    /\ open_logs' = [open_logs EXCEPT ![th[t].id] =
                        IF process_handles[th[t].id] # 0 THEN @ - 1 ELSE @]
    /\ Set(t, IF pop_raises(process_handles, th[t].id)
              THEN stop_return(th[t], "KeyError", 0)
              ELSE IF th[t].exc # ""
              THEN stop_return(th[t], th[t].exc, 0)
              ELSE stop_return(th[t], "", th[t].pid))
    /\ UNCHANGED <<pid_file, proc, quiet, log_file>>

stop_stream(t) ==
    \/ stop_exists(t)
    \/ stop_read(t)
    \/ stop_getpgid(t)
    \/ stop_term(t)
    \/ stop_probe(t)
    \/ stop_kill(t)
    \/ stop_fin_exists(t)
    \/ stop_fin_unlink(t)
    \/ stop_fin_pop(t)

\* ------------------------------------------------------------- get_stream_status
BeginStatus(t) ==
    /\ IsIdle(t)
    /\ \E i \in Ids : Set(t, Enter("status", i, "g_exists"))
    /\ quiet' = TRUE
    /\ UNCHANGED <<pid_file, proc, process_handles, handle_args, open_logs, log_file>>

\* lines 230-231
status_exists(t) ==
    /\ th[t].pc = "g_exists"
    /\ Set(t, IF exists(th[t].id)
              THEN [th[t] EXCEPT !.pc = "g_read"]
              ELSE Done(th[t], "", 0))
    /\ UNCHANGED <<pid_file, proc, process_handles, handle_args, open_logs, quiet, log_file>>

\* line 234, with the handler of lines 241-242
status_read(t) ==
    /\ th[t].pc = "g_read"
    /\ LET c == pid_file[th[t].id] IN
         Set(t, IF parsable(c)
                THEN [th[t] EXCEPT !.pc = "g_probe", !.pid = c]
                ELSE Done(th[t], "", 0))
    /\ UNCHANGED <<pid_file, proc, process_handles, handle_args, open_logs, quiet, log_file>>

\* lines 235-240
status_probe(t) ==
    /\ th[t].pc = "g_probe"
    /\ Set(t, [Done(th[t], "", th[t].pid) EXCEPT !.running = is_running(th[t].pid)])
    /\ UNCHANGED <<pid_file, proc, process_handles, handle_args, open_logs, quiet, log_file>>

get_stream_status(t) ==
    \/ status_exists(t)
    \/ status_read(t)
    \/ status_probe(t)

\* ------------------------------------------------------------- environment
\* a process ends: a child by itself or killed from outside, a foreign one
process_exit ==
    /\ \E p \in Pids :
         /\ proc[p] # Free
         /\ proc' = [proc EXCEPT ![p] = Free]
    /\ quiet' = AllIdle
    /\ UNCHANGED <<pid_file, process_handles, handle_args, open_logs, th, log_file>>

\* the OS gives a free pid to a process the supervisor did not start
foreign_spawn ==
    /\ \E p \in Pids :
         /\ proc[p] = Free
         /\ proc' = [proc EXCEPT ![p] = Foreign]
    /\ quiet' = AllIdle
    /\ UNCHANGED <<pid_file, process_handles, handle_args, open_logs, th, log_file>>

\* the supervisor process is restarted: routes.py line 16 builds a new
\* StreamManager, whose registry is empty; the old handles died with the process
restart ==
    /\ AllIdle
    /\ \E i \in Ids : process_handles[i] # 0
    /\ process_handles' = [i \in Ids |-> 0]
    /\ handle_args' = [i \in Ids |-> <<>>]
    /\ open_logs' = [i \in Ids |-> 0]
    /\ UNCHANGED <<pid_file, proc, th, quiet, log_file>>

Environment ==
    \/ process_exit
    \/ foreign_spawn
    \/ restart


\* ------------------------------------------------------------- directory scans
\* config.PIDS_DIR.glob("*.pid"): the identifiers that have a record
glob == {i \in Ids : exists(i)}

Item(i, p, tag) == [id |-> i, pid |-> p, tag |-> tag]

\* ------------------------------------------------------------- list_streams
BeginList(t) ==
    /\ IsIdle(t)
    /\ Set(t, [Enter("list", "", "l_next") EXCEPT !.todo = glob])
    /\ quiet' = TRUE
    /\ UNCHANGED <<pid_file, proc, process_handles, handle_args, open_logs, log_file>>

\* lines 253-261: the next file of the scan is read; unreadable or
\* unparsable gives pid None, running False; line 270 after the last file
list_next(t) ==
    /\ th[t].pc = "l_next"
    /\ \/ /\ th[t].todo = {}
          /\ Set(t, Done(th[t], "", 0))
       \/ \E i \in th[t].todo :
            LET c == pid_file[i]
                r == [th[t] EXCEPT !.todo = @ \ {i}, !.cur = i] IN
              Set(t, IF parsable(c)
                     THEN [r EXCEPT !.pc = "l_probe", !.pid = c]
                     ELSE [r EXCEPT !.items = @ \cup {Item(i, 0, "not_running")}])
    /\ UNCHANGED <<pid_file, proc, process_handles, handle_args, open_logs, quiet, log_file>>

\* (mutant) a stream counts as running when the registry holds its pid
list_probe_registry(t) ==
    /\ th[t].pc = "l_probe"
    /\ Set(t, [th[t] EXCEPT !.pc = "l_next", !.pid = 0,
                  !.items = @ \cup {Item(th[t].cur, th[t].pid,
                        IF process_handles[th[t].cur] = th[t].pid
                        THEN "running" ELSE "not_running")}])
    /\ UNCHANGED <<pid_file, proc, process_handles, handle_args, open_logs, quiet, log_file>>

\* lines 258, 263-268
list_probe(t) ==
    /\ th[t].pc = "l_probe"
    /\ Set(t, [th[t] EXCEPT !.pc = "l_next", !.pid = 0,
                  !.items = @ \cup {Item(th[t].cur, th[t].pid,
                        IF is_running(th[t].pid) THEN "running" ELSE "not_running")}])
    /\ UNCHANGED <<pid_file, proc, process_handles, handle_args, open_logs, quiet, log_file>>

list_streams(t) ==
    \/ list_next(t)
    \/ list_probe(t)

\* ------------------------------------------------------------- cleanup_stale_pids
BeginCleanup(t) ==
    /\ IsIdle(t)
    /\ Set(t, Enter("cleanup", "", "c_glob"))
    /\ quiet' = TRUE
    /\ UNCHANGED <<pid_file, proc, process_handles, handle_args, open_logs, log_file>>

\* line 339
cleanup_glob(t) ==
    /\ th[t].pc = "c_glob"
    /\ Set(t, [th[t] EXCEPT !.pc = "c_next", !.todo = glob, !.sent = {}])
    /\ UNCHANGED <<pid_file, proc, process_handles, handle_args, open_logs, quiet, log_file>>

\* routes.py line 107: cleaned_for_stream = [c for c in cleaned if c.get("id") == stream_id]
cleaned_for_stream(cleaned, i) == {c \in cleaned : c.id = i}

\* lines 339-343: the next file is read; line 358 after the last one (for
\* the kill-and-cleanup route, routes.py lines 107-115 follow)
cleanup_next(t) ==
    /\ th[t].pc = "c_next"
    /\ \/ /\ th[t].todo = {}
          /\ Set(t, IF th[t].op = "kill_and_cleanup"
                    THEN [Done(th[t], "", th[t].rpid) EXCEPT
                             !.items = cleaned_for_stream(@, th[t].id)]
                    ELSE Done(th[t], "", 0))
       \/ \E i \in th[t].todo :
            LET c == pid_file[i]
                r == [th[t] EXCEPT !.todo = @ \ {i}, !.cur = i] IN
              Set(t, IF parsable(c)
                     THEN [r EXCEPT !.pc = "c_probe", !.pid = c]
                     ELSE [r EXCEPT !.pc = "c_invalid"])
    /\ UNCHANGED <<pid_file, proc, process_handles, handle_args, open_logs, quiet, log_file>>

\* (mutant) every parsable record is taken for stale
cleanup_probe_no_liveness(t) ==
    /\ th[t].pc = "c_probe"
    /\ Set(t, [th[t] EXCEPT !.pc = "c_stale"])
    /\ UNCHANGED <<pid_file, proc, process_handles, handle_args, open_logs, quiet, log_file>>

\* line 344
cleanup_probe(t) ==
    /\ th[t].pc = "c_probe"
    /\ Set(t, IF is_running(th[t].pid)
              THEN [th[t] EXCEPT !.pc = "c_next", !.pid = 0]
              ELSE [th[t] EXCEPT !.pc = "c_stale"])
    /\ UNCHANGED <<pid_file, proc, process_handles, handle_args, open_logs, quiet, log_file>>

\* lines 345-350
cleanup_stale(t) ==
    /\ th[t].pc = "c_stale"
    /\ pid_file' = [pid_file EXCEPT ![th[t].cur] = NoFile]
    /\ Set(t, [th[t] EXCEPT !.pc = "c_next", !.pid = 0,
                  !.items = @ \cup {Item(th[t].cur, th[t].pid, "removed_stale_pidfile")}])
    /\ UNCHANGED <<proc, process_handles, handle_args, open_logs, quiet, log_file>>

\* lines 351-356
cleanup_invalid(t) ==
    /\ th[t].pc = "c_invalid"
    /\ pid_file' = [pid_file EXCEPT ![th[t].cur] = NoFile]
    /\ Set(t, [th[t] EXCEPT !.pc = "c_next",
                  !.items = @ \cup {Item(th[t].cur, 0, "removed_invalid_pidfile")}])
    /\ UNCHANGED <<proc, process_handles, handle_args, open_logs, quiet, log_file>>

cleanup_stale_pids(t) ==
    \/ cleanup_glob(t)
    \/ cleanup_next(t)
    \/ cleanup_probe(t)
    \/ cleanup_stale(t)
    \/ cleanup_invalid(t)

\* ------------------------------------------------------------- kill_all_ffmpeg
BeginKillAll(t) ==
    /\ IsIdle(t)
    /\ Set(t, [Enter("kill_all", "", "k_next") EXCEPT !.todo = glob])
    /\ quiet' = TRUE
    /\ UNCHANGED <<pid_file, proc, process_handles, handle_args, open_logs, log_file>>

\* lines 374-378: the next file is read; an unreadable or unparsable one
\* goes to the handler of line 418; line 423 after the last file
kill_all_next(t) ==
    /\ th[t].pc = "k_next"
    /\ \/ /\ th[t].todo = {}
          /\ Set(t, Done([th[t] EXCEPT !.sent = {}], "", 0))
       \/ \E i \in th[t].todo :
            LET c == pid_file[i]
                r == [th[t] EXCEPT !.todo = @ \ {i}, !.cur = i, !.pid = 0, !.pg = 0,
                                   !.sent = {}, !.cmdline = ""] IN
              Set(t, IF parsable(c)
                     THEN [r EXCEPT !.pc = "k_probe", !.pid = c]
                     ELSE [r EXCEPT !.pc = "k_unlink"])
    /\ UNCHANGED <<pid_file, proc, process_handles, handle_args, open_logs, quiet, log_file>>

\* lines 381-382
kill_all_probe(t) ==
    /\ th[t].pc = "k_probe"
    /\ Set(t, [th[t] EXCEPT !.pc = IF is_running(th[t].pid) THEN "k_cmdline" ELSE "k_next"])
    /\ UNCHANGED <<pid_file, proc, process_handles, handle_args, open_logs, quiet, log_file>>

\* "ffmpeg" in /proc/<pid>/cmdline: the children run config.FFMPEG_BIN
cmdline_has_ffmpeg(p) == proc[p] \in Ids

\* what lines 386-387 can find for pid p: the bytes of /proc/<p>/cmdline,
\* with or without "ffmpeg" in them, or OSError where there is no /proc or
\* the process is gone; a child of a Start runs config.FFMPEG_BIN, a
\* foreign process may or may not be a transcoder
cmdline_read(p) ==
    IF proc[p] = Free THEN {"unreadable"}
    ELSE IF cmdline_has_ffmpeg(p) THEN {"ffmpeg", "unreadable"}
    ELSE {"ffmpeg", "other", "unreadable"}

\* (mutant) the command line is read and not looked at
kill_all_cmdline_unchecked(t) ==
    /\ th[t].pc = "k_cmdline"
    /\ \E c \in cmdline_read(th[t].pid) :
         Set(t, [th[t] EXCEPT !.cmdline = c, !.pc = "k_getpgid"])
    /\ UNCHANGED <<pid_file, proc, process_handles, handle_args, open_logs, quiet, log_file>>

\* lines 385-393: a command line without "ffmpeg" skips the record (line
\* 390); with it, or when open() raises OSError, the sweep proceeds to line 397
kill_all_cmdline(t) ==
    /\ th[t].pc = "k_cmdline"
    /\ \E c \in cmdline_read(th[t].pid) :
         Set(t, [th[t] EXCEPT !.cmdline = c,
                    !.pc = IF c = "other" THEN "k_next" ELSE "k_getpgid"])
    /\ UNCHANGED <<pid_file, proc, process_handles, handle_args, open_logs, quiet, log_file>>

\* line 397; ProcessLookupError goes to the handler of line 413; the
\* command line read at line 387 is not used again
kill_all_getpgid(t) ==
    /\ th[t].pc = "k_getpgid"
    /\ Set(t, IF proc[th[t].pid] # Free
              THEN [th[t] EXCEPT !.pc = "k_term", !.pg = getpgid(th[t].pid), !.cmdline = ""]
              ELSE [th[t] EXCEPT !.pc = "k_unlink", !.cmdline = ""])
    /\ UNCHANGED <<pid_file, proc, process_handles, handle_args, open_logs, quiet, log_file>>

\* lines 398-399
kill_all_term(t) ==
    /\ th[t].pc = "k_term"
    /\ LET g == th[t].pg
           r == [th[t] EXCEPT !.sent = @ \cup {Signal("TERM", g, th[t].cur)}] IN
         IF proc[g] = Free
         THEN /\ Set(t, [r EXCEPT !.pc = "k_unlink"])
              /\ UNCHANGED proc
         ELSE /\ Set(t, [r EXCEPT !.pc = "k_probe2"])
              /\ \/ proc' = [proc EXCEPT ![g] = Free]
                 \/ UNCHANGED proc
    /\ UNCHANGED <<pid_file, process_handles, handle_args, open_logs, quiet, log_file>>

\* line 401
kill_all_probe2(t) ==
    /\ th[t].pc = "k_probe2"
    /\ Set(t, [th[t] EXCEPT !.pc = IF is_running(th[t].pid) THEN "k_kill" ELSE "k_append"])
    /\ UNCHANGED <<pid_file, proc, process_handles, handle_args, open_logs, quiet, log_file>>

\* lines 402-403; ProcessLookupError of a vanished group goes to line 413
kill_all_kill(t) ==
    /\ th[t].pc = "k_kill"
    /\ LET g == th[t].pg
           r == [th[t] EXCEPT !.sent = @ \cup {Signal("KILL", g, th[t].cur)}] IN
         IF proc[g] = Free
         THEN /\ Set(t, [r EXCEPT !.pc = "k_unlink"])
              /\ UNCHANGED proc
         ELSE /\ Set(t, [r EXCEPT !.pc = "k_append"])
              /\ proc' = [proc EXCEPT ![g] = Free]
    /\ UNCHANGED <<pid_file, process_handles, handle_args, open_logs, quiet, log_file>>

\* lines 405-411: killed.append(...); pid_file_path.unlink(missing_ok=True)
kill_all_append(t) ==
    /\ th[t].pc = "k_append"
    /\ pid_file' = [pid_file EXCEPT ![th[t].cur] = NoFile]
    /\ Set(t, [th[t] EXCEPT !.pc = "k_next",
                  !.items = @ \cup {Item(th[t].cur, th[t].pid, "killed")}])
    /\ UNCHANGED <<proc, process_handles, handle_args, open_logs, quiet, log_file>>

\* lines 413-415 and 418-420: pid_file_path.unlink(missing_ok=True)
kill_all_unlink(t) ==
    /\ th[t].pc = "k_unlink"
    /\ pid_file' = [pid_file EXCEPT ![th[t].cur] = NoFile]
    /\ Set(t, [th[t] EXCEPT !.pc = "k_next"])
    /\ UNCHANGED <<proc, process_handles, handle_args, open_logs, quiet, log_file>>

kill_all_ffmpeg(t) ==
    \/ kill_all_next(t)
    \/ kill_all_probe(t)
    \/ kill_all_cmdline(t)
    \/ kill_all_getpgid(t)
    \/ kill_all_term(t)
    \/ kill_all_probe2(t)
    \/ kill_all_kill(t)
    \/ kill_all_append(t)
    \/ kill_all_unlink(t)

\* ------------------------------------------------------------- stop_all_streams
BeginStopAll(t) ==
    /\ IsIdle(t)
    /\ Set(t, [Enter("stop_all", "", "a_loop") EXCEPT !.todo = glob])
    /\ quiet' = TRUE
    /\ UNCHANGED <<pid_file, proc, process_handles, handle_args, open_logs, log_file>>

\* lines 434-437: stop_stream(stream_id) for the next file; line 442 after the last
stop_all_loop(t) ==
    /\ th[t].pc = "a_loop"
    /\ \/ /\ th[t].todo = {}
          /\ Set(t, Done([th[t] EXCEPT !.sent = {}], "", 0))
       \/ \E i \in th[t].todo :
            Set(t, [th[t] EXCEPT !.todo = @ \ {i}, !.id = i, !.pc = "t_exists",
                                 !.sent = {}])
    /\ UNCHANGED <<pid_file, proc, process_handles, handle_args, open_logs, quiet, log_file>>

\* ------------------------------------------------------------- routes.kill_and_cleanup_stream
\* routes.py lines 96-103: stop_stream first, FileNotFoundError passed over
BeginKillAndCleanup(t) ==
    /\ IsIdle(t)
    /\ \E i \in Ids : Set(t, Enter("kill_and_cleanup", i, "t_exists"))
    /\ quiet' = TRUE
    /\ UNCHANGED <<pid_file, proc, process_handles, handle_args, open_logs, log_file>>

\* ------------------------------------------------------------- get_logs
\* bytes: b"\n" (line 312), the carriage return that str.splitlines also
\* takes for a line boundary, and a byte that is no valid UTF-8
NL == 10
CR == 13
Bad == 255

\* line 300: chunk_size = 1024
ChunkSize == 1024
\* line 316: the cap of the chunk size
ChunkCap == 10 * 1024 * 1024

Min(a, b) == IF a < b THEN a ELSE b

\* bytearray.count(b"\n") of line 312
count(d, b) == Cardinality({k \in 1..Len(d) : d[k] = b})

\* bytes.decode(errors="ignore") of line 319: the ASCII bytes are their own
\* code points, a byte that is no valid UTF-8 is dropped
decode(d) == SelectSeq(d, LAMBDA b : b < 128)

\* the elements of a finite set of numbers in increasing order
RECURSIVE Sorted(_)
Sorted(S) ==
    IF S = {} THEN <<>>
    ELSE LET m == CHOOSE x \in S : \A y \in S : x <= y IN <<m>> \o Sorted(S \ {m})

\* str.splitlines() of line 320: a line ends at "\n", at "\r" or at "\r\n"
\* (one boundary); the boundaries are dropped, and text after the last
\* boundary is a last line
splitlines(s) ==
    LET ends == Sorted({k \in 1..Len(s) :
                          \/ s[k] = NL
                          \/ s[k] = CR /\ ~(k < Len(s) /\ s[k + 1] = NL)})
        n == Len(ends)
        from(i) == IF i = 1 THEN 1 ELSE ends[i - 1] + 1
        to(i) == IF s[ends[i]] = NL /\ ends[i] > 1 /\ s[ends[i] - 1] = CR
                 THEN ends[i] - 2 ELSE ends[i] - 1
        last == IF n = 0 THEN 0 ELSE ends[n]
    IN  [i \in 1..n |-> SubSeq(s, from(i), to(i))]
            \o (IF last < Len(s) THEN <<SubSeq(s, last + 1, Len(s))>> ELSE <<>>)

\* text_lines[-lines:] of line 321, for lines > 0
last_lines(ls, n) == SubSeq(ls, Len(ls) - Min(n, Len(ls)) + 1, Len(ls))

\* "\n".join(...) of line 321
RECURSIVE join(_)
join(ls) ==
    IF Len(ls) = 0 THEN <<>>
    ELSE IF Len(ls) = 1 THEN ls[1]
    ELSE ls[1] \o <<NL>> \o join(Tail(ls))

BeginLogs(t) ==
    /\ IsIdle(t)
    /\ \E i \in Ids, n \in 1..MaxTail :
         Set(t, [Enter("get_logs", i, "o_exists") EXCEPT !.lines = n])
    /\ quiet' = TRUE
    /\ UNCHANGED <<pid_file, proc, process_handles, handle_args, open_logs, log_file>>

\* lines 288-289: if not log_file_path.exists(): raise FileNotFoundError
logs_exists(t) ==
    /\ th[t].pc = "o_exists"
    /\ Set(t, IF log_file[th[t].id] = NoLog
              THEN Done(th[t], FileNotFoundError, 0)
              ELSE [th[t] EXCEPT !.pc = "o_open"])
    /\ UNCHANGED <<pid_file, proc, process_handles, handle_args, open_logs, quiet, log_file>>

\* lines 293-302: the size of the file; an empty file returns "" at once;
\* an OSError of open, seek or tell goes to the fallback of line 323
logs_open(t) ==
    /\ th[t].pc = "o_open"
    /\ LET file_size == Len(log_file[th[t].id]) IN
         \/ Set(t, IF file_size = 0
                   THEN Done(th[t], "", 0)
                   ELSE [th[t] EXCEPT !.pc = "o_loop", !.chunk_size = ChunkSize,
                                      !.data = <<>>, !.position = file_size])
         \/ Set(t, [th[t] EXCEPT !.pc = "o_fallback"])
    /\ UNCHANGED <<pid_file, proc, process_handles, handle_args, open_logs, quiet, log_file>>

\* lines 304-316: one turn of the while loop; a failing read goes to line 323
logs_loop(t) ==
    /\ th[t].pc = "o_loop"
    /\ LET r == th[t]
           f == log_file[r.id]
           read_size == Min(r.chunk_size, r.position)
           chunk == SubSeq(f, r.position - read_size + 1, r.position)
           d == chunk \o r.data
       IN  \/ Set(t, IF ~(r.position > 0 /\ r.lines > 0)
                     THEN [r EXCEPT !.pc = "o_return"]
                     ELSE IF count(d, NL) >= r.lines
                     THEN [r EXCEPT !.pc = "o_return", !.data = d,
                                    !.position = @ - read_size]
                     ELSE [r EXCEPT !.data = d, !.position = @ - read_size,
                                    !.chunk_size = Min(@ * 2, ChunkCap)])
           \/ /\ r.position > 0 /\ r.lines > 0
              /\ Set(t, [r EXCEPT !.pc = "o_fallback"])
    /\ UNCHANGED <<pid_file, proc, process_handles, handle_args, open_logs, quiet, log_file>>

\* lines 319-321
logs_return(t) ==
    /\ th[t].pc = "o_return"
    /\ Set(t, Done([th[t] EXCEPT
                      !.out = join(last_lines(splitlines(decode(th[t].data)), th[t].lines))],
                   "", 0))
    /\ UNCHANGED <<pid_file, proc, process_handles, handle_args, open_logs, quiet, log_file>>

\* lines 323-328: the fallback reads the whole file
logs_fallback(t) ==
    /\ th[t].pc = "o_fallback"
    /\ Set(t, Done([th[t] EXCEPT
                      !.out = join(last_lines(splitlines(decode(log_file[th[t].id])),
                                              th[t].lines))],
                   "", 0))
    /\ UNCHANGED <<pid_file, proc, process_handles, handle_args, open_logs, quiet, log_file>>

get_logs(t) ==
    \/ logs_exists(t)
    \/ logs_open(t)
    \/ logs_loop(t)
    \/ logs_return(t)
    \/ logs_fallback(t)

\* ------------------------------------------------------------- routes.start_stream
NoneValue == <<"None">>

\* the command line as a function of the request: the extra arguments are
\* any list of up to MaxArgs of the arguments below, absent or given; the
\* image is none, a plain path or the default of config.py line 36, whose
\* name holds the word "overlay"; the mode is none, "full" or another string
ImageA == <<"a", ".", "p", "n", "g">>
OVERLAY_IMAGE_DEFAULT ==
    <<"o", "v", "e", "r", "l", "a", "y", "_", "s", "t", "r", "a", "e", "m", ".", "p", "n", "g">>
Images == {ImageA, OVERLAY_IMAGE_DEFAULT}
Modes == {NoneValue, Literal.Full, <<"F", "U", "L", "L">>}
ArgTokens ==
    {Literal.DashI, ImageA, Literal.FilterComplex, Literal.DashVf, <<"S", "C", "A", "L", "E">>, Literal.DashCv, Literal.Copy,
     Literal.DashPreset, <<"x">>}
ArgLists == UNION {[1..n -> ArgTokens] : n \in 0..MaxArgs}
Sources == {<<"h">>, Literal.Crop}
Sinks == {<<"r">>}

\* routes.start_stream with utils.validate_stream_request: the body of the
\* request gives the image, the overlay mode and the extra arguments
BeginArgs(t) ==
    /\ IsIdle(t)
    /\ \E image \in Images \cup {<<>>}, mode \in Modes, extra \in ArgLists,
          absent \in BOOLEAN, hls \in Sources, rtmp \in Sinks :
         /\ absent => extra = <<>>
         /\ Set(t, [Idle EXCEPT !.pc = "v_image", !.op = "args", !.image = image,
                                !.mode = mode, !.args = extra, !.absent = absent,
                                !.hls = hls, !.rtmp = rtmp])
    /\ quiet' = TRUE
    /\ UNCHANGED <<pid_file, proc, process_handles, handle_args, open_logs, log_file>>

\* utils.py lines 89-90: if image: extra_args = build_overlay_args(...)
validate_image(t) ==
    /\ th[t].pc = "v_image"
    /\ LET r == th[t]
           a == build_overlay_args(r.image, r.mode, r.args) IN
         Set(t, IF r.image # <<>>
                THEN [r EXCEPT !.pc = "b_build", !.args = a, !.once = a, !.applied = 1,
                               !.absent = FALSE]
                ELSE [r EXCEPT !.pc = "b_build"])
    /\ UNCHANGED <<pid_file, proc, process_handles, handle_args, open_logs, quiet, log_file>>

\* the augmented arguments are sent again with the same image and mode
overlay_again(t) ==
    /\ th[t].pc = "b_build"
    /\ th[t].applied = 1
    /\ Set(t, [th[t] EXCEPT !.applied = 2,
                  !.args = build_overlay_args(th[t].image, th[t].mode, th[t].args)])
    /\ UNCHANGED <<pid_file, proc, process_handles, handle_args, open_logs, quiet, log_file>>

\* stream_manager.py line 133 with lines 59-91: the argument vector, or
\* FileNotFoundError when config.FFMPEG_BIN is not on disk
build_args(t) ==
    /\ th[t].pc = "b_build"
    /\ \E binary \in BOOLEAN :
         Set(t, IF binary
                THEN [th[t] EXCEPT !.pc = "done",
                         !.cmd = _build_ffmpeg_args(th[t].hls, th[t].rtmp, th[t].args)]
                ELSE [th[t] EXCEPT !.pc = "done", !.err = BinaryNotFound])
    /\ UNCHANGED <<pid_file, proc, process_handles, handle_args, open_logs, quiet, log_file>>

\* ------------------------------------------------------------- specifications
\* one request at a time (a sequential history), with the environment
\* acting between any two steps
Next ==
    \/ BeginStart(1)
    \/ BeginStop(1)
    \/ BeginStatus(1)
    \/ BeginList(1)
    \/ BeginCleanup(1)
    \/ BeginKillAll(1)
    \/ BeginStopAll(1)
    \/ BeginKillAndCleanup(1)
    \/ start_stream(1)
    \/ stop_stream(1)
    \/ get_stream_status(1)
    \/ list_streams(1)
    \/ cleanup_stale_pids(1)
    \/ kill_all_ffmpeg(1)
    \/ stop_all_loop(1)
    \/ Return(1)
    \/ Environment

Spec == Init /\ [][Next]_vars


\* concurrent requests: one thread per request (Flask's threaded server,
\* main.py line 38), Start and Stop of one identifier in any interleaving.
\* The threads are interchangeable: the lowest idle one takes the next
\* request.  The history of the state at the start of a request is not kept
free_thread(t) == IsIdle(t) /\ \A u \in Threads : u < t => ~IsIdle(u)

Request(t, o, i, first) ==
    /\ free_thread(t)
    /\ Set(t, [Enter(o, i, first) EXCEPT !.pre = NoPre])
    /\ UNCHANGED <<pid_file, proc, process_handles, handle_args, open_logs, quiet, log_file>>

InitConc == Init /\ pid_file["s2"] = NoFile

NextConc ==
    \/ \E t \in Threads : Request(t, "start", "s1", "s_exists")
    \/ \E t \in Threads : Request(t, "stop", "s1", "t_exists")
    \/ \E t \in Threads : start_stream(t)
    \/ \E t \in Threads : stop_stream(t)
    \/ \E t \in Threads : Return(t)
    \/ process_exit

SpecConc == InitConc /\ [][NextConc]_vars


\* concurrent requests on different identifiers: each thread serves the
\* requests of one identifier (Start, Stop, GetStatus), in any interleaving
\* with the other thread and with processes ending
ThreadId(t) == IF t = 1 THEN "s1" ELSE "s2"

RequestOwn(t, o, first) ==
    /\ IsIdle(t)
    /\ Set(t, [Enter(o, ThreadId(t), first) EXCEPT !.pre = NoPre])
    /\ UNCHANGED <<pid_file, proc, process_handles, handle_args, open_logs, quiet, log_file>>

NextDiff ==
    \/ \E t \in Threads : RequestOwn(t, "start", "s_exists")
    \/ \E t \in Threads : RequestOwn(t, "stop", "t_exists")
    \/ \E t \in Threads : RequestOwn(t, "status", "g_exists")
    \/ \E t \in Threads : start_stream(t)
    \/ \E t \in Threads : stop_stream(t)
    \/ \E t \in Threads : get_stream_status(t)
    \/ \E t \in Threads : Return(t)
    \/ process_exit

SpecDiff == Init /\ [][NextDiff]_vars


\* get_logs as a function of the log file and the number of lines asked
\* for: the file of "s1" is any file of up to MaxFileLines lines, each
\* empty, one byte, shorter than a chunk but longer than half of it, longer
\* than a chunk, or three bytes around a carriage return or an undecodable
\* byte; the last line with or without its newline.  Line k is made of the
\* k-th letter
LineKinds == {<<0, 0>>, <<1, 0>>, <<MidLine, 0>>, <<LongLine, 0>>, <<3, CR>>, <<3, Bad>>}

LineBytes(kind, k) == [j \in 1..kind[1] |-> IF kind[2] # 0 /\ j = 2 THEN kind[2] ELSE 96 + k]

RECURSIVE FileOf(_, _, _)
FileOf(kinds, k, nl) ==
    IF k > Len(kinds) THEN <<>>
    ELSE LineBytes(kinds[k], k)
            \o (IF k < Len(kinds) \/ nl THEN <<NL>> ELSE <<>>)
            \o FileOf(kinds, k + 1, nl)

Files ==
    {FileOf(kinds, 1, nl) :
        kinds \in UNION {[1..n -> LineKinds] : n \in 1..MaxFileLines}, nl \in BOOLEAN}

InitTail ==
    /\ pid_file = [i \in Ids |-> NoFile]
    /\ proc = [p \in Pids |-> Free]
    /\ process_handles = [i \in Ids |-> 0]
    /\ handle_args = [i \in Ids |-> <<>>]
    /\ open_logs = [i \in Ids |-> 0]
    /\ th = [t \in Threads |-> Idle]
    /\ quiet = TRUE
    /\ \E f \in Files \cup {NoLog} : log_file = [i \in Ids |-> IF i = "s1" THEN f ELSE NoLog]

NextTail ==
    \/ BeginLogs(1)
    \/ get_logs(1)
    \/ Return(1)

SpecTail == InitTail /\ [][NextTail]_vars

\* the read loop of get_logs (lines 293-316) over files that no byte sequence
\* of the model can hold: a file is its size and the offsets of its newlines,
\* which is all that the loop looks at; the reads done so far are kept as the
\* half-open ranges <<from, to>> of offsets in items

\* lines 293-302: the size of the file; an empty file returns "" at once
tail_open(t) ==
    /\ IsIdle(t)
    /\ \E n \in 1..MaxTail :
         LET file_size == log_file["s1"].size
             r == [Enter("tail", "s1", "o_loop") EXCEPT !.lines = n, !.pre = NoPre] IN
           Set(t, IF file_size = 0
                  THEN [r EXCEPT !.pc = "done"]
                  ELSE [r EXCEPT !.chunk_size = ChunkSize, !.position = file_size])
    /\ quiet' = TRUE
    /\ UNCHANGED <<pid_file, proc, process_handles, handle_args, open_logs, log_file>>

\* (mutant) the chunk size doubles without the cap of line 316
tail_loop_uncapped(t) ==
    /\ th[t].pc = "o_loop"
    /\ LET r == th[t]
           f == log_file[r.id]
           read_size == Min(r.chunk_size, r.position)
           newline_count == Cardinality({k \in f.nl : k >= r.position - read_size})
           read == [r EXCEPT !.items = @ \cup {<<r.position - read_size, r.position>>},
                             !.position = @ - read_size]
       IN  Set(t, IF ~(r.position > 0 /\ r.lines > 0)
                  THEN [r EXCEPT !.pc = "done"]
                  ELSE IF newline_count >= r.lines
                  THEN [read EXCEPT !.pc = "done"]
                  ELSE [read EXCEPT !.chunk_size = @ * 2])
    /\ UNCHANGED <<pid_file, proc, process_handles, handle_args, open_logs, quiet, log_file>>

\* lines 304-316: one turn of the while loop; data holds the bytes from
\* position to the end of the file, so data.count(b"\n") is the number of
\* newlines at or after the new position; a failing read leaves the loop
\* for the handler of line 323
tail_loop(t) ==
    /\ th[t].pc = "o_loop"
    /\ LET r == th[t]
           f == log_file[r.id]
           read_size == Min(r.chunk_size, r.position)
           newline_count == Cardinality({k \in f.nl : k >= r.position - read_size})
           read == [r EXCEPT !.items = @ \cup {<<r.position - read_size, r.position>>},
                             !.position = @ - read_size]
       IN  \/ Set(t, IF ~(r.position > 0 /\ r.lines > 0)
                     THEN [r EXCEPT !.pc = "done"]
                     ELSE IF newline_count >= r.lines
                     THEN [read EXCEPT !.pc = "done"]
                     ELSE [read EXCEPT !.chunk_size = Min(@ * 2, ChunkCap)])
           \/ /\ r.position > 0 /\ r.lines > 0
              /\ Set(t, [r EXCEPT !.pc = "done", !.err = OSError])
    /\ UNCHANGED <<pid_file, proc, process_handles, handle_args, open_logs, quiet, log_file>>

InitLoop ==
    /\ pid_file = [i \in Ids |-> NoFile]
    /\ proc = [p \in Pids |-> Free]
    /\ process_handles = [i \in Ids |-> 0]
    /\ handle_args = [i \in Ids |-> <<>>]
    /\ open_logs = [i \in Ids |-> 0]
    /\ th = [t \in Threads |-> Idle]
    /\ quiet = TRUE
    /\ \E n \in {0, 1, ChunkSize - 1, ChunkSize, ChunkSize + 1, 3 * ChunkSize + 7, 4 * ChunkCap + 1},
          S \in {{}, {0}, {0, 1, 2}, {ChunkSize - 1}, {ChunkSize, 4 * ChunkCap},
                 {3 * ChunkSize + 5, 3 * ChunkSize + 6}} :
         log_file = [i \in Ids |-> IF i = "s1"
                                    THEN [size |-> n, nl |-> {k \in S : 0 <= k /\ k < n}]
                                    ELSE NoLog]

NextLoop ==
    \/ tail_open(1)
    \/ tail_loop(1)
    \/ Return(1)

\* the loop holds no lock and waits for nothing: a turn that can be taken is taken
SpecLoop == InitLoop /\ [][NextLoop]_vars /\ WF_vars(tail_loop(1))


\* the command line as a function of the request
NextArgs ==
    \/ BeginArgs(1)
    \/ validate_image(1)
    \/ overlay_again(1)
    \/ build_args(1)
    \/ Return(1)

InitArgs == Init /\ \A i \in Ids : pid_file[i] = NoFile

SpecArgs == InitArgs /\ [][NextArgs]_vars


\* the log of one identifier under Start, Stop, the cleanup sweep and the
\* kill sweep, one request at a time, while the children write their output
\* (lines 141-146: stdout and stderr of the child are the handle opened in
\* append mode, so every write of a child goes to the end of the file).  A
\* byte written is marked with the pid of its writer
child_write ==
    /\ \E p \in Pids :
         /\ proc[p] \in Ids
         /\ log_file[proc[p]] # NoLog
         /\ Len(log_file[proc[p]]) < MaxLog
         /\ log_file' = [log_file EXCEPT ![proc[p]] = Append(@, p)]
    /\ UNCHANGED <<pid_file, proc, process_handles, handle_args, open_logs, th, quiet>>

InitLog == Init /\ pid_file["s2"] = NoFile

NextLog ==
    \/ BeginStartOn(1, "s1")
    \/ BeginStopOn(1, "s1")
    \/ BeginCleanup(1)
    \/ BeginKillAll(1)
    \/ start_stream(1)
    \/ stop_stream(1)
    \/ cleanup_stale_pids(1)
    \/ kill_all_ffmpeg(1)
    \/ Return(1)
    \/ process_exit
    \/ restart
    \/ child_write

SpecLog == InitLog /\ [][NextLog]_vars


\* routes.py lines 22-52 as far as the manager sees them: a Start of s1 with
\* the source, the sink and the extra arguments of the request, one request at
\* a time, between Stops, cleanups and the environment
StartArgLists == {<<>>, <<Literal.DashVf>>, <<Literal.DashCv, Literal.Copy>>}

BeginStartWith(t, i) ==
    /\ IsIdle(t)
    /\ \E h \in Sources, r \in Sinks, a \in StartArgLists :
         Set(t, [Enter("start", i, "s_exists") EXCEPT !.hls = h, !.rtmp = r, !.args = a])
    /\ quiet' = TRUE
    /\ UNCHANGED <<pid_file, proc, process_handles, handle_args, open_logs, log_file>>

InitStart == Init /\ pid_file["s2"] = NoFile

NextStart ==
    \/ BeginStartWith(1, "s1")
    \/ BeginStopOn(1, "s1")
    \/ BeginCleanup(1)
    \/ start_stream(1)
    \/ stop_stream(1)
    \/ cleanup_stale_pids(1)
    \/ Return(1)
    \/ process_exit
    \/ foreign_spawn
    \/ restart

SpecStart == InitStart /\ [][NextStart]_vars

\* readers against writers: one request thread serves GetStatus and
\* ListStreams while the other serves Start and Stop of s1 and
\* CleanupStalePids, in any interleaving, with processes ending
ReadRequest(o, i, first) ==
    /\ IsIdle(1)
    /\ Set(1, [Enter(o, i, first) EXCEPT !.todo = IF o = "list" THEN glob ELSE {}])
    /\ UNCHANGED <<pid_file, proc, process_handles, handle_args, open_logs, quiet, log_file>>

WriteRequest(o, i, first) ==
    /\ IsIdle(2)
    /\ Set(2, [Enter(o, i, first) EXCEPT !.pre = NoPre])
    /\ UNCHANGED <<pid_file, proc, process_handles, handle_args, open_logs, quiet, log_file>>

InitRead == Init /\ pid_file["s2"] = NoFile

NextRead ==
    \/ ReadRequest("status", "s1", "g_exists")
    \/ ReadRequest("list", "", "l_next")
    \/ WriteRequest("start", "s1", "s_exists")
    \/ WriteRequest("stop", "s1", "t_exists")
    \/ WriteRequest("cleanup", "", "c_glob")
    \/ get_stream_status(1)
    \/ list_streams(1)
    \/ start_stream(2)
    \/ stop_stream(2)
    \/ cleanup_stale_pids(2)
    \/ \E t \in Threads : Return(t)
    \/ process_exit

SpecRead == InitRead /\ [][NextRead]_vars

\* a Stop in progress takes its next step: stop_stream is straight-line
\* code whose only waits are the fixed sleeps of lines 190 and 195, so a
\* call that has begun is never suspended for ever.  Starts and Stops of
\* s1, one request at a time, with processes ending and foreign ones starting
InitStop == Init /\ pid_file["s2"] = NoFile

NextStop ==
    \/ BeginStartOn(1, "s1")
    \/ BeginStopOn(1, "s1")
    \/ start_stream(1)
    \/ stop_stream(1)
    \/ Return(1)
    \/ process_exit
    \/ foreign_spawn

SpecStop == InitStop /\ [][NextStop]_vars /\ WF_vars(stop_stream(1))

\* ------------------------------------------------------------- claims
Finished(t, o) == th[t].pc = "done" /\ th[t].op = o
LiveChildren(i) == {p \in Pids : proc[p] = i}

\* C1: a Start of an identifier whose recorded child is alive fails with
\* AlreadyRunning, and in a sequential history no two live children spawned
\* by the supervisor belong to the same identifier
C1_SecondStartRefused ==
    \A t \in Threads :
        (/\ Finished(t, "start") /\ quiet
         /\ th[t].pre.live /\ proc[th[t].pre.rec] = th[t].id)
        => th[t].err = AlreadyRunning /\ th[t].newpid = 0

C1_AtMostOneLiveChild ==
    /\ C1_SecondStartRefused
    /\ \A i \in Ids : Cardinality(LiveChildren(i)) <= 1

\* C2: under every interleaving of concurrent Starts of one identifier at
\* most one live child exists for it; stated for the children of Starts
\* that have not failed
Spawned(t) ==
    /\ th[t].op = "start" /\ th[t].newpid # 0
    /\ th[t].err = "" /\ th[t].exc = ""
    /\ proc[th[t].newpid] = th[t].id

C2_ConcurrentStartsOneChild ==
    \A t, u \in Threads :
        (/\ t # u /\ Spawned(t) /\ Spawned(u)
         /\ th[t].id = th[u].id)
        => th[t].newpid = th[u].newpid

\* C3: a Stop called while a record of the identifier exists leaves, whatever
\* it returns or raises, no record and no registry entry of the identifier,
\* and no open handle on its log
C3_StopAlwaysCleansUp ==
    \A t \in Threads :
        (Finished(t, "stop") /\ th[t].pre.rec # NoFile)
        => /\ pid_file[th[t].id] = NoFile
           /\ process_handles[th[t].id] = 0
           /\ open_logs[th[t].id] = 0

\* a Stop that raised (the recorded process was gone) had a registry entry to clear
C3_Witness ==
    \E t \in Threads :
        /\ Finished(t, "stop") /\ th[t].pre.rec \in Pids
        /\ th[t].pre.reg # 0 /\ th[t].err = ProcessLookupError
        /\ process_handles[th[t].id] = 0

\* C4: a Stop of a record whose process has exited, before Stop began or
\* between its steps, reports no error and returns the recorded pid
C4_StopSwallowsVanishedProcess ==
    \A t \in Threads :
        (/\ Finished(t, "stop") /\ th[t].pre.rec \in Pids
         /\ proc[th[t].pre.rec] = Free)
        => th[t].err = "" /\ th[t].rpid = th[t].pre.rec

\* C5: a Stop without a record fails with NotRunning in one step that sends
\* no signal and changes neither the PID directory nor the registry; every
\* Stop leaves no record, so that a second Stop in a row fails with NotRunning
C5_StopLeavesNoRecord ==
    \A t \in Threads :
        Finished(t, "stop") =>
            /\ pid_file[th[t].id] = NoFile
            /\ th[t].pre.rec = NoFile => th[t].err = NotRunning /\ th[t].sent = {}

C5_StepWithoutRecord ==
    \A t \in Threads :
        (/\ th[t].op = "stop" /\ th[t].pc = "t_exists"
         /\ pid_file[th[t].id] = NoFile /\ th'[t] # th[t])
        => /\ th'[t].pc = "done" /\ th'[t].err = NotRunning
           /\ UNCHANGED <<pid_file, proc, process_handles, handle_args, open_logs>>

C5_StopWithoutRecord == [](C5_StopLeavesNoRecord) /\ [][C5_StepWithoutRecord]_vars

\* a Stop without a record that found a registry entry and left it alone
C5_Witness ==
    \E t \in Threads :
        /\ Finished(t, "stop") /\ th[t].err = NotRunning
        /\ th[t].pre.rec = NoFile /\ th[t].pre.reg # 0
        /\ process_handles[th[t].id] = th[t].pre.reg

\* C6 as claimed: a Start of an identifier whose record names a pid that is
\* not alive succeeds
StaleAtStart(t) ==
    /\ Finished(t, "start") /\ quiet
    /\ th[t].pre.rec \in Pids /\ ~th[t].pre.live

C7_SignalledWereScanned ==
    \A t \in Threads :
        th[t].op = "kill_all" => \A s \in th[t].sent : s.pg = th[t].pid

C7_UnrecordedSurvive ==
    \A t \in Threads, p \in Pids :
        (/\ th[t].op = "kill_all" /\ th'[t] # th[t]
         /\ proc[p] = Foreign /\ \A i \in Ids : pid_file[i] # p)
        => proc'[p] = proc[p]

C7_KillAllScope == [](C7_SignalledWereScanned) /\ [][C7_UnrecordedSurvive]_vars

\* the sweep killed a recorded child while an unrecorded foreign process ran
C7_Witness ==
    \E t \in Threads, p \in Pids :
        /\ th[t].op = "kill_all" /\ th[t].pc = "k_append"
        /\ \E s \in th[t].sent : s.sig = "KILL" /\ s.victim = "own"
        /\ proc[p] = Foreign /\ \A i \in Ids : pid_file[i] # p

\* C8: every process group signalled by Stop, StopAllStreams or
\* KillAllManaged is a child spawned by a Start of the identifier whose
\* record named it
C8_OnlyOwnChildrenSignalled ==
    \A t \in Threads :
        \A s \in th[t].sent : s.victim \in {"own", "none"}

\* C9: with no registry entry of the identifier, a Stop of a record whose
\* process runs signals the recorded group, deletes the record and returns
\* the recorded pid
C9_StopWithoutRegistry ==
    \A t \in Threads :
        (/\ Finished(t, "stop") /\ quiet
         /\ th[t].pre.reg = 0 /\ th[t].pre.live)
        => /\ \E s \in th[t].sent : s.sig = "TERM" /\ s.pg = th[t].pre.rec
           /\ \A s \in th[t].sent : s.pg = th[t].pre.rec /\ s.victim # "none"
           /\ pid_file[th[t].id] = NoFile
           /\ proc[th[t].pre.rec] = Free
           /\ th[t].err = "" /\ th[t].rpid = th[t].pre.rec

\* a child of the identifier, started before a restart, stopped by the record alone
C9_Witness ==
    \E t \in Threads :
        /\ Finished(t, "stop") /\ quiet /\ th[t].pre.reg = 0 /\ th[t].pre.live
        /\ \E s \in th[t].sent : s.victim = "own"
        /\ th[t].rpid = th[t].pre.rec

\* C10: after Start returns P the record holds P, and GetStatus reports
\* running with pid P while process P is there; once it is gone GetStatus
\* reports not running, pid P, and leaves the record; CleanupStalePids then
\* leaves no record of a dead or unparsable pid, and ListStreams over an
\* empty PID directory returns nothing
C10_EndToEnd ==
    \A t \in Threads :
        /\ (Finished(t, "start") /\ th[t].err = "") =>
              /\ th[t].rpid = th[t].newpid /\ pid_file[th[t].id] = th[t].rpid
              /\ quiet => proc[th[t].rpid] = th[t].id
        /\ (Finished(t, "status") /\ quiet /\ th[t].pre.rec \in Pids) =>
              /\ th[t].err = "" /\ th[t].rpid = th[t].pre.rec
              /\ th[t].running = (proc[th[t].pre.rec] # Free)
              /\ pid_file[th[t].id] = th[t].pre.rec
        /\ (Finished(t, "cleanup") /\ quiet) =>
              \A i \in Ids : pid_file[i] # NoFile =>
                  pid_file[i] \in Pids /\ proc[pid_file[i]] # Free
        /\ (Finished(t, "list") /\ quiet /\ \A i \in Ids : pid_file[i] = NoFile) =>
              th[t].items = {}

\* the child this supervisor started was killed: not running, record kept
C10_Witness ==
    \E t \in Threads :
        /\ Finished(t, "status") /\ quiet
        /\ th[t].pre.rec \in Pids /\ th[t].pre.reg = th[t].pre.rec
        /\ proc[th[t].pre.rec] = Free
        /\ ~th[t].running /\ th[t].rpid = th[t].pre.rec

\* C11: once a Start and a Stop of one identifier, run in any interleaving,
\* have both returned, the child spawned by that Start is not alive, or the
\* PidRecord and the registry entry of the identifier both exist and hold
\* its pid
C11_StartStopConsistent ==
    \A t, u \in Threads :
        (/\ Finished(t, "start") /\ th[t].err = ""
         /\ Finished(u, "stop") /\ th[u].id = th[t].id
         /\ proc[th[t].newpid] = th[t].id)
        => /\ pid_file[th[t].id] = th[t].newpid
           /\ process_handles[th[t].id] = th[t].newpid

\* C12: under every interleaving of Start, Stop and GetStatus of one
\* identifier with operations of another identifier, no step of an operation
\* changes the PidRecord, the registry entry or the log handles of an
\* identifier other than its own, and no signal reaches the child of
\* another identifier
C12_NoForeignChildSignalled ==
    \A t \in Threads : \A s \in th[t].sent : s.victim # "other"

C12_OwnIdentifierOnly ==
    \A t \in Threads, j \in Ids :
        (th'[t] # th[t] /\ th'[t].id # j /\ th'[t].op \in {"start", "stop", "status"})
        => /\ pid_file'[j] = pid_file[j]
           /\ process_handles'[j] = process_handles[j]
           /\ open_logs'[j] = open_logs[j]

C12_DifferentIdsIsolated == [](C12_NoForeignChildSignalled) /\ [][C12_OwnIdentifierOnly]_vars

\* C13: no step of KillAndCleanup(id) changes the PidRecord of another
\* identifier, whether that record is live, stale or unparsable
C13_StepScopedToId ==
    \A t \in Threads, j \in Ids :
        (th[t].op = "kill_and_cleanup" /\ th'[t] # th[t] /\ j # th[t].id)
        => pid_file'[j] = pid_file[j]

C13_KillAndCleanupScoped == [][C13_StepScopedToId]_vars

\* C14: KillAndCleanup(id) completes without error when the stream runs,
\* when it has no PidRecord and when its PidRecord names a process that is
\* not alive, and no PidRecord of id remains when it has returned
C14_KillAndCleanupBestEffort ==
    \A t \in Threads :
        (/\ Finished(t, "kill_and_cleanup") /\ quiet
         /\ th[t].pre.rec \in Pids \cup {NoFile})
        => th[t].err = "" /\ pid_file[th[t].id] = NoFile


\* C15: an unparsable PidRecord is deleted by Start, Stop, CleanupStalePids
\* and KillAllManaged, and none of Start, Stop, GetStatus, ListStreams,
\* CleanupStalePids, KillAllManaged fails with the ValueError of a record
\* whose content is not an integer
C15_UnparsableSelfHealed ==
    \A t \in Threads :
        /\ (th[t].pc = "done"
            /\ th[t].op \in {"start", "stop", "status", "list", "cleanup", "kill_all"})
           => th[t].err # ValueError
        /\ ((Finished(t, "start") \/ Finished(t, "stop")) /\ th[t].pre.rec = Unparsable)
           => pid_file[th[t].id] # Unparsable
        /\ (Finished(t, "cleanup") \/ Finished(t, "kill_all"))
           => \A i \in Ids : pid_file[i] # Unparsable


\* C16: CleanupStalePids deletes exactly the PidRecords that are unparsable
\* or whose recorded process is not alive, retains every record whose
\* process is alive, and reports each deleted record exactly once, tagged
\* removed_stale_pidfile (parsable pid, process not alive) or
\* removed_invalid_pidfile (unparsable)
C16_DeletionReported ==
    \A t \in Threads, i \in Ids :
        (th[t].op = "cleanup" /\ pid_file'[i] # pid_file[i])
        => /\ pid_file'[i] = NoFile
           /\ \A c \in th[t].items : c.id # i
           /\ \/ /\ pid_file[i] = Unparsable
                 /\ th'[t].items = th[t].items \cup {Item(i, 0, "removed_invalid_pidfile")}
              \/ /\ pid_file[i] \in Pids
                 /\ quiet => proc[pid_file[i]] = Free
                 /\ th'[t].items =
                        th[t].items \cup {Item(i, pid_file[i], "removed_stale_pidfile")}

C16_ReportOnlyGrowsByDeletion ==
    \A t \in Threads :
        (th[t].op = "cleanup" /\ th'[t].op = "cleanup" /\ th'[t].items # th[t].items)
        => \E i \in Ids : pid_file'[i] # pid_file[i]

C16_OnlyLiveRetained ==
    \A t \in Threads :
        (Finished(t, "cleanup") /\ quiet)
        => /\ \A i \in Ids : exists(i) => (pid_file[i] \in Pids /\ proc[pid_file[i]] # Free)
           /\ \A c \in th[t].items : pid_file[c.id] = NoFile
           /\ \A c, d \in th[t].items : c.id = d.id => c = d

C16_CleanupExact ==
    /\ [](C16_OnlyLiveRetained)
    /\ [][C16_DeletionReported /\ C16_ReportOnlyGrowsByDeletion]_vars

C16_Witness ==
    \E t \in Threads :
        /\ Finished(t, "cleanup") /\ quiet
        /\ \E c \in th[t].items : c.tag = "removed_stale_pidfile"
        /\ \E c \in th[t].items : c.tag = "removed_invalid_pidfile"


\* C17: ListStreams returns exactly one status entry per PidRecord, running
\* exactly when the record's pid parses and its process is alive, an
\* unparsable record reported as not running with no pid; the registry plays
\* no part, so streams started by a former supervisor are listed as running
C17_ListExact ==
    \A t \in Threads :
        Finished(t, "list")
        => /\ {c.id : c \in th[t].items} = glob
           /\ Cardinality(th[t].items) = Cardinality(glob)
           /\ \A c \in th[t].items :
                IF pid_file[c.id] \in Pids
                THEN /\ c.pid = pid_file[c.id]
                     /\ c.tag \in {"running", "not_running"}
                     /\ quiet => (c.tag = "running" <=> proc[c.pid] # Free)
                ELSE c = Item(c.id, 0, "not_running")

C17_Witness ==
    \E t \in Threads :
        /\ Finished(t, "list") /\ quiet
        /\ \E c \in th[t].items : c.tag = "running" /\ process_handles[c.id] = 0
        /\ \E c \in th[t].items : pid_file[c.id] = Unparsable


\* C18: StopAllStreams invokes Stop once for every PidRecord present and
\* returns exactly one outcome per such identifier, its pid on success and
\* an error otherwise; a Stop that fails for one identifier never keeps the
\* remaining identifiers from being stopped
Covered(r) ==
    {c.id : c \in r.items} \cup r.todo
        \cup (IF r.pc \in {"a_loop", "done"} THEN {} ELSE {r.id})

C18_SweepStep ==
    \A t \in Threads :
        /\ (IsIdle(t) /\ th'[t].op = "stop_all") => Covered(th'[t]) = glob
        /\ (th[t].op = "stop_all" /\ th'[t].op = "stop_all" /\ th'[t] # th[t])
           => /\ Covered(th'[t]) = Covered(th[t])
              /\ th[t].pc = "a_loop" /\ th'[t].pc # "done"
                 => /\ th'[t].id \in th[t].todo
                    /\ \A c \in th[t].items : c.id # th'[t].id
              /\ th'[t].items # th[t].items
                 => \E x \in th'[t].items :
                      /\ th'[t].items = th[t].items \cup {x}
                      /\ x \notin th[t].items
                      /\ x.id = th[t].id
                      /\ \/ x.tag = "stopped" /\ x.pid = th[t].pid /\ x.pid \in Pids
                         \/ x.tag \in {ValueError, ProcessLookupError, FileNotFoundError}
                            /\ x.pid = 0

C18_OneOutcomeEach ==
    \A t \in Threads :
        Finished(t, "stop_all")
        => /\ \A c, d \in th[t].items : c.id = d.id => c = d
           /\ \A c \in th[t].items : pid_file[c.id] = NoFile
           /\ glob = {}

C18_StopAllIsolated == [](C18_OneOutcomeEach) /\ [][C18_SweepStep]_vars

C18_Witness ==
    \E t \in Threads :
        /\ Finished(t, "stop_all")
        /\ \E c \in th[t].items : c.tag = "stopped"
        /\ \E c \in th[t].items : c.tag # "stopped"


\* C19: when spawning the child fails inside Start, the failure reaches the
\* caller, and then the log handle is closed and the identifier has no
\* PidRecord and no registry entry: a failed Start leaves no open log handle
\* and no record behind
C19_FailedSpawnRolledBack ==
    \A t \in Threads :
        (Finished(t, "start") /\ th[t].err = OSError /\ th[t].newpid = 0)
        => /\ open_logs[th[t].id] = 0
           /\ pid_file[th[t].id] = NoFile
           /\ process_handles[th[t].id] = 0


\* C20: Tail(id, maxLines) of a log file of K lines returns all K lines
\* unmodified when K < maxLines, exactly the last maxLines lines in original
\* order, each complete, when K > maxLines, and the empty string for an empty
\* file, for every file content, including a last line that ends with a
\* newline and lines longer than the read chunk
LinesOf(f) ==
    LET ends == Sorted({k \in 1..Len(f) : f[k] = NL})
        n == Len(ends)
        last == IF n = 0 THEN 0 ELSE ends[n]
    IN  [i \in 1..n |-> decode(SubSeq(f, IF i = 1 THEN 1 ELSE ends[i - 1] + 1, ends[i] - 1))]
            \o (IF last < Len(f) THEN <<decode(SubSeq(f, last + 1, Len(f)))>> ELSE <<>>)

C20_TailReturnsLastLines ==
    \A t \in Threads :
        (Finished(t, "get_logs") /\ th[t].err = "")
        => LET ls == LinesOf(log_file[th[t].id])
               K == Len(ls)
               n == th[t].lines
           IN  /\ Len(log_file[th[t].id]) = 0 => th[t].out = <<>>
               /\ K < n => th[t].out = join(ls)
               /\ K > n => th[t].out = join(SubSeq(ls, K - n + 1, K))


\* C21: applying the overlay-argument augmentation twice with the same
\* image path and overlay mode yields the same argument vector as applying
\* it once, and that vector contains exactly one "-i <image>" input and at
\* most one filter-graph argument
ImageInputs(a, image) == {k \in 1..(Len(a) - 1) : a[k] = Literal.DashI /\ a[k + 1] = image}
FilterGraphs(a) == {k \in 1..Len(a) : a[k] = Literal.FilterComplex}

C21_OverlayIdempotent ==
    \A t \in Threads :
        (th[t].op = "args" /\ th[t].applied = 2)
        => /\ th[t].args = th[t].once
           /\ Cardinality(ImageInputs(th[t].args, th[t].image)) = 1
           /\ Cardinality(FilterGraphs(th[t].args)) <= 1


\* C22: Build chooses exactly one video mode: when the joined, lower-cased
\* extraArgs contain one of the keywords, the argument vector contains the
\* codec, preset, tune and bitrate flags and no copy flag; otherwise
\* (absent or empty extraArgs included) it contains "-c:v copy" and no
\* codec, preset, tune or bitrate flags
Built(t) == th[t].op = "args" /\ th[t].pc = "done" /\ th[t].err = ""

HasKeyword(a) ==
    \E w \in {Literal.FilterComplex, Literal.DashVf, Literal.Drawtext, Literal.OverlayWord, Literal.FormatEq, Literal.Scale, Literal.Crop} :
        contains(lower(join_args(a)), w)

HasPair(v, flag, value) == \E k \in 1..(Len(v) - 1) : v[k] = flag /\ v[k + 1] = value

EncodeFlags(v) ==
    /\ HasPair(v, Literal.DashCv, VIDEO_CODEC)
    /\ HasPair(v, Literal.DashPreset, VIDEO_PRESET)
    /\ HasPair(v, Literal.DashTune, VIDEO_TUNE)
    /\ HasPair(v, Literal.DashBv, VIDEO_BITRATE)

NoEncodeFlags(v) ==
    /\ ~HasPair(v, Literal.DashCv, VIDEO_CODEC)
    /\ ~member(Literal.DashPreset, v)
    /\ ~member(Literal.DashTune, v)
    /\ ~member(Literal.DashBv, v)

OneVideoMode(v, a) ==
    IF HasKeyword(a)
    THEN EncodeFlags(v) /\ ~HasPair(v, Literal.DashCv, Literal.Copy)
    ELSE HasPair(v, Literal.DashCv, Literal.Copy) /\ NoEncodeFlags(v)

\* the claim as it stands, about the whole argument vector
C22_OneVideoModeInVector ==
    \A t \in Threads : Built(t) => OneVideoMode(th[t].cmd, th[t].args)

\* the claim about the arguments that Build appends after extraArgs
AppendedByBuild(t) == SubSeq(th[t].cmd, 5 + Len(th[t].args), Len(th[t].cmd))

C22_OneVideoModeAppended ==
    \A t \in Threads : Built(t) => OneVideoMode(AppendedByBuild(t), th[t].args)

C22_Witness ==
    \E t \in Threads :
        /\ Built(t)
        /\ member(<<"S", "C", "A", "L", "E">>, th[t].args)
        /\ member(Literal.Copy, th[t].args)
        /\ EncodeFlags(AppendedByBuild(t))


\* C23: the supervisor never truncates a log file: across any sequence of
\* Start, Stop, cleanup and kill operations for an identifier, the content
\* of its log file at any time is a prefix of its content at any later time
\* (restarting a stream appends to the existing log)
C23_LogStepExtends ==
    \A i \in Ids :
        log_file[i] # NoLog
        => /\ log_file'[i] # NoLog
           /\ Len(log_file'[i]) >= Len(log_file[i])
           /\ SubSeq(log_file'[i], 1, Len(log_file[i])) = log_file[i]

C23_LogNeverTruncated == [][C23_LogStepExtends]_vars

C23_Witness ==
    \E t \in Threads :
        /\ th[t].op = "start" /\ th[t].pc = "s_write"
        /\ Len(log_file[th[t].id]) = MaxLog
        /\ \E k \in 1..MaxLog : log_file[th[t].id][k] # th[t].newpid


\* C24: the log handle opened by Start for a child is closed at Stop, and
\* also when the supervisor detects the child's own termination: once
\* CleanupStalePids has removed the child's stale record, or Start has
\* self-healed it, the supervisor holds no open log handle for that child
C24_ClosedAtStop ==
    \A t \in Threads :
        (Finished(t, "stop") /\ th[t].pre.reg # 0 /\ th[t].pre.rec # NoFile)
        => process_handles[th[t].id] = 0 /\ open_logs[th[t].id] = 0

C24_ClosedAtCleanup ==
    \A t \in Threads :
        Finished(t, "cleanup")
        => \A c \in th[t].items :
             c.tag = "removed_stale_pidfile" => process_handles[c.id] # c.pid

C24_ClosedAtSelfHeal ==
    \A t \in Threads :
        (th[t].op = "start" /\ th[t].pc = "s_build" /\ th[t].pid # 0)
        => process_handles[th[t].id] # th[t].pid

C24_HandleClosedOnTermination ==
    C24_ClosedAtStop /\ C24_ClosedAtCleanup /\ C24_ClosedAtSelfHeal


\* C25: in Stop the signals are ordered: the graceful termination signal is
\* sent to the recorded process group first; the forceful kill signal is
\* sent only after the graceful signal and the grace wait, and only if the
\* liveness probe then still reports the process alive; a process that
\* exited during the grace wait is never sent the kill signal
InStop(r) ==
    r.pc \in {"t_exists", "t_read", "t_getpgid", "t_term", "t_probe", "t_kill",
              "t_fin_exists", "t_fin_unlink", "t_fin_pop"}

C25_SignalStep ==
    \A t \in Threads :
        (InStop(th[t]) /\ th'[t].sent # th[t].sent /\ th'[t].sent # {})
        => \E s \in th'[t].sent :
             /\ th'[t].sent = th[t].sent \cup {s}
             /\ s \notin th[t].sent
             /\ s.pg = th[t].pid
             /\ \/ s.sig = "TERM" /\ th[t].sent = {} /\ th[t].pc = "t_term"
                \/ /\ s.sig = "KILL" /\ th[t].pc = "t_kill"
                   /\ \E g \in th[t].sent : g.sig = "TERM" /\ g.pg = s.pg

C25_KillOnlyAfterLiveProbe ==
    \A t \in Threads :
        (th[t].pc # "t_kill" /\ th'[t].pc = "t_kill")
        => /\ th[t].pc = "t_probe"
           /\ proc[th[t].pid] # Free
           /\ \E g \in th[t].sent : g.sig = "TERM"

C25_NoKillOfExited ==
    \A t \in Threads :
        (th[t].pc = "t_probe" /\ proc[th[t].pid] = Free /\ th'[t] # th[t])
        => th'[t].pc = "t_fin_exists" /\ th'[t].sent = th[t].sent

C25_SignalsOrdered ==
    [][C25_SignalStep /\ C25_KillOnlyAfterLiveProbe /\ C25_NoKillOfExited]_vars

C25_Witness ==
    \E t \in Threads :
        /\ Finished(t, "stop")
        /\ \E s \in th[t].sent : s.sig = "KILL" /\ s.victim = "own"
        /\ \E s \in th[t].sent : s.sig = "TERM" /\ s.victim = "own"


\* C26: when Start(id) succeeds and returns P, a child with pid P was spawned
\* by this Start as leader of its own process group, the PidRecord of id holds
\* exactly P, and the registry entry of id holds P, an open log handle and the
\* argument vector the child was launched with
C26_SpawnStep ==
    \A t \in Threads :
        (th[t].op = "start" /\ th'[t].op = "start" /\ th'[t].newpid # th[t].newpid)
        => /\ th[t].pc = "s_spawn"
           /\ proc[th'[t].newpid] = Free
           /\ proc'[th'[t].newpid] = th[t].id
           /\ getpgid(th'[t].newpid) = th'[t].newpid
           /\ th'[t].cmd = th[t].cmd

C26_StartedAsReturned ==
    \A t \in Threads :
        (Finished(t, "start") /\ th[t].err = "")
        => /\ th[t].rpid \in Pids
           /\ th[t].rpid = th[t].newpid
           /\ pid_file[th[t].id] = th[t].rpid
           /\ process_handles[th[t].id] = th[t].rpid
           /\ open_logs[th[t].id] = 1
           /\ handle_args[th[t].id] # <<>>

\* the entry made at lines 150-155 holds the vector the child was launched with
C26_RegisterStep ==
    \A t \in Threads :
        (th[t].op = "start" /\ th[t].pc = "s_register" /\ th'[t] # th[t])
        => /\ th'[t].pc = "done" /\ th'[t].err = ""
           /\ handle_args'[th[t].id] = th[t].cmd

\* the vector of a Start is the one built from its request, from line 133 on
C26_VectorOfRequest ==
    \A t \in Threads :
        (th[t].op = "start" /\ th[t].pc \in {"s_open", "s_spawn", "s_write", "s_register"})
        => th[t].cmd = _build_ffmpeg_args(th[t].hls, th[t].rtmp, th[t].args)

C26_StartSucceeds ==
    /\ [](C26_StartedAsReturned /\ C26_VectorOfRequest)
    /\ [][C26_SpawnStep /\ C26_RegisterStep]_vars

\* a Start with extra arguments that succeeded over the entry a former Start
\* had left, with its child alive at the return
C26_Witness ==
    \E t \in Threads :
        /\ Finished(t, "start") /\ th[t].err = ""
        /\ th[t].pre.reg # 0
        /\ handle_args[th[t].id] # _build_ffmpeg_args(<<"h">>, <<"r">>, <<>>)
        /\ proc[th[t].rpid] = th[t].id


\* C27: whenever no operation is in progress, every registry entry has a
\* PidRecord of the same identifier holding the same pid
C27_RegistryEntryHasRecord ==
    AllIdle => \A i \in Ids : process_handles[i] # 0 => pid_file[i] = process_handles[i]


\* C28: after a Start that fails, no child spawned by that Start is alive
C28_FailedStartLeavesNoChild ==
    \A t \in Threads :
        (Finished(t, "start") /\ th[t].err # "" /\ th[t].newpid # 0)
        => proc[th[t].newpid] # th[t].id


\* C29: KillAllManaged guards each record before it signals: a record whose
\* process is not alive is skipped without any signal; a live process whose
\* command line does not name the transcoder is not signalled and its
\* PidRecord is retained; when the command line cannot be inspected the
\* process is signalled anyway
C29_DeadSkipped ==
    \A t \in Threads :
        (/\ th[t].op = "kill_all" /\ th[t].pc = "k_probe"
         /\ proc[th[t].pid] = Free /\ th'[t] # th[t])
        => /\ th'[t].pc = "k_next" /\ th'[t].sent = {}
           /\ th'[t].items = th[t].items
           /\ UNCHANGED <<pid_file, proc>>

C29_OtherSkipped ==
    \A t \in Threads :
        (th[t].op = "kill_all" /\ th[t].cmdline = "other")
        => /\ th[t].pc = "k_next" /\ th[t].sent = {}
           /\ pid_file[th[t].cur] = th[t].pid
           /\ \A x \in th[t].items : x.id # th[t].cur

C29_OtherLeftAlone ==
    \A t \in Threads :
        (th[t].op = "kill_all" /\ th[t].cmdline = "other" /\ th'[t] # th[t])
        => UNCHANGED <<pid_file, proc>>

C29_UnreadableProceeds ==
    \A t \in Threads :
        (th[t].op = "kill_all" /\ th[t].cmdline = "unreadable")
        => th[t].pc = "k_getpgid" /\ th[t].sent = {}

C29_UnreadableSignalled ==
    \A t \in Threads :
        (/\ th[t].op = "kill_all" /\ th'[t] # th[t]
         /\ th[t].pid \in Pids /\ proc[th[t].pid] # Free)
        => /\ th[t].cmdline = "unreadable"
                => th'[t].pc = "k_term" /\ th'[t].pg = th[t].pid
           /\ th[t].pc = "k_term"
                => /\ th'[t].pc = "k_probe2"
                   /\ \E s \in th'[t].sent : s.sig = "TERM" /\ s.pg = th[t].pid

C29_KillAllGuards ==
    /\ [](C29_OtherSkipped /\ C29_UnreadableProceeds)
    /\ [][C29_DeadSkipped /\ C29_OtherLeftAlone /\ C29_UnreadableSignalled]_vars

\* a sweep about to signal the live child of one record, whose command line
\* it could not read, after it left alone a record whose live process is no
\* transcoder
C29_Witness ==
    \E t \in Threads :
        /\ th[t].op = "kill_all" /\ th[t].pc = "k_getpgid"
        /\ th[t].cmdline = "unreadable"
        /\ proc[th[t].pid] = th[t].cur
        /\ \E i \in Ids \ {th[t].cur} : pid_file[i] \in Pids /\ proc[pid_file[i]] = Foreign
                                        /\ i \notin th[t].todo


\* C30: the list KillAllManaged returns holds exactly the records whose
\* process group it signalled, each once with its id and pid, and the
\* PidRecord of every listed entry has been deleted; also when the process
\* exits between the liveness check and a signal
C30_RecordStep ==
    \A t \in Threads :
        (/\ th[t].op = "kill_all" /\ th'[t].op = "kill_all"
         /\ th[t].pc # "k_next" /\ th'[t].pc = "k_next")
        => LET signalled == \E s \in th'[t].sent : s.victim # "none" IN
             /\ th'[t].items = IF signalled
                               THEN th[t].items \cup {Item(th[t].cur, th[t].pid, "killed")}
                               ELSE th[t].items
             /\ signalled => pid_file'[th[t].cur] = NoFile

C30_ListedDeleted ==
    \A t \in Threads :
        Finished(t, "kill_all") => \A x \in th[t].items : pid_file[x.id] = NoFile

C30_KilledListExact == [](C30_ListedDeleted) /\ [][C30_RecordStep]_vars


\* C31: a Start that fails with AlreadyRunning changes nothing: the record,
\* the registry entry, the running child and the log file are as they were,
\* no child is spawned and no log handle is opened
C31_RefusalPath ==
    \A t \in Threads :
        (/\ th[t].op = "start" /\ th'[t] # th[t]
         /\ \/ th[t].pc \in {"s_exists", "s_read"}
            \/ th'[t].err = AlreadyRunning)
        => /\ UNCHANGED <<pid_file, proc, process_handles, handle_args, open_logs, log_file>>
           /\ th'[t].newpid = 0 /\ th'[t].logf = FALSE
           /\ th'[t].err = AlreadyRunning => th[t].pc = "s_probe"

C31_RefusedAsFound ==
    \A t \in Threads :
        (Finished(t, "start") /\ th[t].err = AlreadyRunning)
        => /\ th[t].pre.rec \in Pids
           /\ pid_file[th[t].id] = th[t].pre.rec
           /\ process_handles[th[t].id] = th[t].pre.reg
           /\ th[t].newpid = 0 /\ th[t].rpid = 0
           /\ quiet => proc[th[t].pre.rec] # Free

C31_AlreadyRunningChangesNothing == [](C31_RefusedAsFound) /\ [][C31_RefusalPath]_vars

\* a refused Start of a stream whose child runs, with its entry and its log
C31_Witness ==
    \E t \in Threads :
        /\ Finished(t, "start") /\ th[t].err = AlreadyRunning
        /\ proc[th[t].pre.rec] = th[t].id
        /\ process_handles[th[t].id] = th[t].pre.rec
        /\ open_logs[th[t].id] = 1 /\ log_file[th[t].id] # NoLog


\* C32: the binary check comes before the argument vector and every later
\* step of Start: a Start that fails with BinaryNotFound has spawned no
\* child, opened no log handle, written no PidRecord and added no registry entry
C32_BeforeBuild ==
    \A t \in Threads :
        (/\ th[t].op = "start" /\ th'[t] # th[t]
         /\ th[t].pc \in {"s_exists", "s_read", "s_probe", "s_unlink", "s_unlink_ok", "s_build"})
        => /\ UNCHANGED <<proc, process_handles, handle_args, open_logs, log_file>>
           /\ \A i \in Ids : pid_file'[i] \in {pid_file[i], NoFile}
           /\ th'[t].newpid = 0 /\ th'[t].logf = FALSE

C32_BinaryCheckedFirst ==
    \A t \in Threads :
        (th[t].op = "start" /\ th'[t] # th[t] /\ th'[t].err = BinaryNotFound)
        => /\ th[t].pc = "s_build" /\ th[t].cmd = <<>> /\ th'[t].cmd = <<>>
           /\ UNCHANGED <<pid_file, proc, process_handles, handle_args, open_logs, log_file>>

C32_NothingStarted ==
    \A t \in Threads :
        (Finished(t, "start") /\ th[t].err = BinaryNotFound)
        => /\ th[t].newpid = 0 /\ th[t].rpid = 0 /\ th[t].logf = FALSE
           /\ pid_file[th[t].id] \in {NoFile, th[t].pre.rec}
           /\ process_handles[th[t].id] = th[t].pre.reg

C32_BinaryNotFoundStartsNothing ==
    [](C32_NothingStarted) /\ [][C32_BeforeBuild /\ C32_BinaryCheckedFirst]_vars

\* a Start without record or entry that failed for the missing binary
C32_Witness ==
    \E t \in Threads :
        /\ Finished(t, "start") /\ th[t].err = BinaryNotFound
        /\ th[t].pre.rec = NoFile /\ th[t].pre.reg = 0
        /\ pid_file[th[t].id] = NoFile /\ process_handles[th[t].id] = 0
        /\ open_logs[th[t].id] = 0 /\ log_file[th[t].id] = NoLog


\* C33: with overlay mode "full", whenever the existing args hold neither a
\* filter-graph flag nor an overlay keyword, the augmentation appends exactly
\* one "-filter_complex" followed by the fixed centering expression, for
\* every image path; with any other mode it appends no filter-graph argument
C33_FilterStep ==
    \A t \in Threads :
        (/\ th[t].op = "args" /\ th[t].pc = "v_image"
         /\ th[t].image # <<>> /\ th'[t] # th[t])
        => LET before == th[t].args
               after == th'[t].args
               clean == /\ ~contains(lower(join_args(before)), Literal.FilterComplex)
                        /\ ~contains(lower(join_args(before)), Literal.OverlayWord) IN
             /\ (th[t].mode = Literal.Full /\ clean)
                  => /\ Len(after) >= 2
                     /\ after[Len(after) - 1] = Literal.FilterComplex
                     /\ after[Len(after)] = Literal.OverlayExpr
                     /\ Cardinality(FilterGraphs(after)) = 1
             /\ th[t].mode # Literal.Full
                  => /\ Cardinality(FilterGraphs(after)) = Cardinality(FilterGraphs(before))
                     /\ ~member(Literal.OverlayExpr, after)

C33_FullOverlayAppended == [][C33_FilterStep]_vars


\* C34: deleting a PidRecord is idempotent in every operation: no operation
\* fails because the record it is about to delete is already gone, also when
\* a concurrent operation removed it between the existence check and the delete
C34_DeleteStep ==
    \A t \in Threads :
        th'[t] # th[t]
        => /\ th[t].pc \in {"s_unlink", "s_unlink_ok"}
                => th'[t].pc \in {"s_build", "s_unlink_ok"} /\ pid_file'[th[t].id] = NoFile
           /\ th[t].pc = "t_fin_unlink"
                => th'[t].pc = "t_fin_pop" /\ pid_file'[th[t].id] = NoFile
           /\ th[t].pc \in {"c_stale", "c_invalid"}
                => th'[t].pc = "c_next" /\ pid_file'[th[t].cur] = NoFile
           /\ th[t].pc \in {"k_append", "k_unlink"}
                => th'[t].pc = "k_next" /\ pid_file'[th[t].cur] = NoFile

C34_DeleteIdempotent == [][C34_DeleteStep]_vars

\* C35: GetStatus and ListStreams are read-only and total: whether the
\* record is absent, parsable, unparsable or deleted under them, they return
\* a status and raise nothing, a failed probe is reported as not running,
\* and they change no PidRecord, registry entry, log file or process
C35_ReadStep ==
    \A t \in Threads :
        (th[t].op \in {"status", "list"} /\ th'[t] # th[t] /\ th'[t].op = th[t].op)
        => /\ UNCHANGED <<pid_file, proc, process_handles, handle_args, open_logs, log_file>>
           /\ th'[t].err = "" /\ th'[t].exc = ""
           /\ th[t].pc = "g_exists" /\ pid_file[th[t].id] = NoFile
                => th'[t].pc = "done" /\ ~th'[t].running
           /\ th[t].pc = "g_read" /\ pid_file[th[t].id] \notin Pids
                => th'[t].pc = "done" /\ ~th'[t].running
           /\ th[t].pc = "g_probe"
                => /\ th'[t].pc = "done" /\ th'[t].rpid = th[t].pid
                   /\ th'[t].running = (proc[th[t].pid] # Free)
           /\ th[t].pc = "l_next" /\ th'[t].pc = "l_next"
                => Item(th'[t].cur, 0, "not_running") \in th'[t].items
           /\ th[t].pc = "l_probe"
                => Item(th[t].cur, th[t].pid,
                        IF proc[th[t].pid] # Free THEN "running" ELSE "not_running")
                     \in th'[t].items

C35_Returned ==
    \A t \in Threads :
        (Finished(t, "status") \/ Finished(t, "list"))
        => /\ th[t].err = ""
           /\ Finished(t, "status") /\ th[t].rpid = 0 => ~th[t].running

C35_ReadOnlyAndTotal == [](C35_Returned) /\ [][C35_ReadStep]_vars

\* a GetStatus that found the record at its call and reported not running
\* without a pid, the record having been deleted under it
C35_Witness ==
    \E t \in Threads :
        /\ Finished(t, "status") /\ th[t].err = ""
        /\ th[t].pre.rec \in Pids /\ th[t].rpid = 0 /\ ~th[t].running
        /\ pid_file[th[t].id] = NoFile


\* C36: every Stop(id) call terminates, and a Stop called for a record whose
\* child is alive leads to that child not being alive, also when the child
\* ignores the graceful signal, because the kill of its group follows the wait
C36_StopTerminates ==
    \A t \in Threads : (th[t].op = "stop" /\ th[t].pc # "done") ~> (th[t].pc = "done")

C36_ChildEnds ==
    \A t \in Threads, i \in Ids, p \in Pids :
        (/\ th[t].op = "stop" /\ th[t].pc = "t_exists" /\ th[t].id = i
         /\ pid_file[i] = p /\ proc[p] = i)
        ~> (proc[p] # i)

C36_StopEndsChild == C36_StopTerminates /\ C36_ChildEnds

\* a Stop of a live child that ignored SIGTERM and was ended by SIGKILL
C36_Witness ==
    \E t \in Threads :
        /\ Finished(t, "stop") /\ th[t].err = ""
        /\ th[t].pre.live /\ th[t].pre.rec = th[t].rpid
        /\ \E s \in th[t].sent : s.sig = "KILL" /\ s.victim = "own"
        /\ proc[th[t].rpid] = Free


\* C37: Build returns the vector [binary, -re, -i, source], then extraArgs
\* unchanged and contiguous, then the video flags, then the audio transcode
\* flags (codec, sample rate, bitrate; never a copy of the audio), then
\* "-f flv" and the sink URL as the last element, for every input
C37_VideoFlags(v) ==
    \/ v = <<Literal.DashCv, Literal.Copy>>
    \/ v = <<Literal.DashCv, VIDEO_CODEC, Literal.DashPreset, VIDEO_PRESET,
             Literal.DashTune, VIDEO_TUNE, Literal.DashBv, VIDEO_BITRATE>>

C37_Layout(cmd, hls, rtmp, extra) ==
    LET n == Len(extra)
        m == Len(cmd) IN
      /\ m >= 4 + n + 2 + 9
      /\ SubSeq(cmd, 1, 4) = <<FFMPEG_BIN, Literal.DashRe, Literal.DashI, hls>>
      /\ SubSeq(cmd, 5, 4 + n) = extra
      /\ C37_VideoFlags(SubSeq(cmd, 5 + n, m - 9))
      /\ SubSeq(cmd, m - 8, m - 3)
           = <<Literal.DashCa, AUDIO_CODEC, Literal.DashAr, AUDIO_SAMPLE_RATE,
               Literal.DashBa, AUDIO_BITRATE>>
      /\ cmd[m - 7] # Literal.Copy
      /\ SubSeq(cmd, m - 2, m - 1) = <<Literal.DashF, Literal.Flv>>
      /\ cmd[m] = rtmp

C37_BuildLayout ==
    \A t \in Threads : Built(t) => C37_Layout(th[t].cmd, th[t].hls, th[t].rtmp, th[t].args)

\* a vector built from two extra arguments that hold a keyword
C37_Witness ==
    \E t \in Threads :
        /\ Built(t)
        /\ Len(th[t].args) = 2 /\ th[t].args[1] # th[t].args[2]
        /\ HasKeyword(th[t].args)
        /\ Len(th[t].cmd) = 4 + 2 + 8 + 9


\* C38: the backward read loop of Tail terminates for every file size and
\* every positive maxLines: each turn lowers the read position, until it is 0
\* or enough newlines were seen; the chunk size starts at 1024 bytes, doubles
\* and never exceeds the cap of 10 MiB; no byte of the file is read twice
C38_InLoop(t) == th[t].op = "tail" /\ th[t].pc = "o_loop"

C38_NewlinesFrom(t, pos) == Cardinality({k \in log_file[th[t].id].nl : k >= pos})

C38_ChunkBounded ==
    \A t \in Threads :
        th[t].op = "tail" /\ th[t].pc = "o_loop"
        => /\ th[t].chunk_size >= ChunkSize /\ th[t].chunk_size <= 10 * 1024 * 1024
           /\ th[t].items = {} => th[t].chunk_size = 1024
           /\ th[t].position >= 0

C38_ReadsDisjoint ==
    \A t \in Threads :
        th[t].op = "tail"
        => \A a, b \in th[t].items :
               /\ a[1] >= 0 /\ a[1] < a[2] /\ a[2] <= log_file[th[t].id].size
               /\ a # b => (a[2] <= b[1] \/ b[2] <= a[1])

C38_Turn ==
    \A t \in Threads :
        (C38_InLoop(t) /\ th'[t] # th[t] /\ th'[t].err = "")
        => IF th[t].position > 0
           THEN /\ th'[t].position < th[t].position
                /\ th'[t].items = th[t].items \cup {<<th'[t].position, th[t].position>>}
                /\ th'[t].pc = "o_loop"
                     => /\ th'[t].chunk_size = Min(2 * th[t].chunk_size, 10 * 1024 * 1024)
                        /\ C38_NewlinesFrom(t, th'[t].position) < th[t].lines
                /\ th'[t].pc # "o_loop"
                     => /\ th'[t].pc = "done"
                        /\ C38_NewlinesFrom(t, th'[t].position) >= th[t].lines
           ELSE th'[t] = [th[t] EXCEPT !.pc = "done"]

C38_Terminates == \A t \in Threads : C38_InLoop(t) ~> (th[t].pc = "done")

C38_TailLoopTerminates ==
    /\ [](C38_ChunkBounded /\ C38_ReadsDisjoint)
    /\ [][C38_Turn]_vars
    /\ C38_Terminates

\* a Tail of a file of more than 40 MiB without enough newlines: it read the
\* whole file, and one of its reads had the size of the cap
C38_Witness ==
    \E t \in Threads :
        /\ Finished(t, "tail") /\ th[t].err = ""
        /\ log_file[th[t].id].size > 4 * ChunkCap
        /\ th[t].position = 0
        /\ C38_NewlinesFrom(t, 0) < th[t].lines
        /\ \E a \in th[t].items : a[2] - a[1] = ChunkCap

====
